---- MODULE Spec2Model ----
(***************************************************************************)
(* Core execution context (Lean.Core, stage0/stdlib/Lean/CoreM.c) and the  *)
(* scoped trace environment (src/library/trace.cpp).                       *)
(*                                                                         *)
(* Spec      : one top-level run of a CoreM action.  The action is an      *)
(*             arbitrary program over the CoreM operations; the model      *)
(*             executes it one operation at a time on a stack of contexts  *)
(*             (one frame per pending withIncRecDepth / withRef body).     *)
(* RunsSpec  : two top-level runs, each with the reference cell it made,   *)
(*             executing their operations in any interleaving.             *)
(* NameSpec  : the pure functions on hierarchical names (src/util/name.h)  *)
(*             applied to names drawn from a bounded set.                  *)
(* TraceSpec : trace scopes (scope_trace_env) entered and left in LIFO     *)
(*             order by each thread, and the registry of trace classes     *)
(*             and aliases.                                                *)
(* RegSpec   : the registry of trace classes and aliases alone, under      *)
(*             register_trace_class and register_trace_class_alias.        *)
(* ExnSpec   : the renderings of a Core exception (toMessageData,          *)
(*             toString, the IO error returned by runCore).                *)
(* FlushSpec : a persistent array of trace messages built by push and      *)
(*             written out in order by forM and by run / runCore.          *)
(* ThreadSpec: trace scopes entered and left by two threads.               *)
(* SetOptSpec: set_option (stage0/stdlib/Lean/Elab/SetOption.c) applied to *)
(*             options drawn from a bounded set.                           *)
(***************************************************************************)
EXTENDS Integers, Sequences, FiniteSets, TLC

VARIABLES
    phase,      \* "Start" | "Running" | "Completed" | "Failed"
    options,    \* the Options value given to run/runCore
    initialEnv, \* the Environment value given to run/runCore
    stack,      \* frames of contexts; the last one is the current context
    cell,       \* the IO.Ref holding the State: <<st>> when full, <<>> when taken
    pending,    \* <<>> or <<exception>>: the error result being returned
    last,       \* history: the operation executed by the last step
    freshIds,   \* history: every identifier returned by mkFreshId in this run
    enabled,    \* per thread: get_enabled_trace_classes()
    disabled,   \* per thread: get_disabled_trace_classes()
    g_env,      \* per thread: bound environment pointer (0 is nullptr)
    g_opts,     \* per thread: bound options pointer (0 is nullptr)
    g_ctx,      \* per thread: bound type-context pointer (0 is nullptr)
    scopes,     \* per thread: the live scope_trace_env objects, innermost last
    lastScope,  \* per thread: history of the last scope entry or exit
    g_trace_classes, \* process-wide: the set of registered trace classes
    g_trace_aliases, \* process-wide: map from a class to the set of its aliases
    regHist,    \* history: the classes and the (class, alias) pairs registered so far
    stdout,     \* the chunks written to standard output by the run, in order
    stderr,     \* the chunks written to standard error by the run, in order
    result,     \* <<>> or <<r>>: the IO result run/runCore has returned
    heap,       \* RunsSpec: the reference cells made so far, by address
    runs,       \* RunsSpec: per run, its position, context and cell address
    nameIn,     \* NameSpec: the names the functions are applied to
    nameOut,    \* NameSpec: the function applied and what it returned
    exnIn,      \* ExnSpec: the exception the conversions are applied to
    exnOut,     \* ExnSpec: the conversion applied and what it returned
    parr,       \* FlushSpec: a persistent array of trace messages
    pushed,     \* FlushSpec: history, the messages pushed to parr, in order
    flushOut,   \* FlushSpec: <<>> or <<r>>: what forM over parr returned
    setOptIn,   \* SetOptSpec: the options set_option is applied to
    setOptOut   \* SetOptSpec: the last set_option call and what it returned

coreVars  == <<phase, options, initialEnv, stack, cell, pending, last, freshIds>>
traceVars == <<enabled, disabled, g_env, g_opts, g_ctx, scopes, lastScope>>
regVars   == <<g_trace_classes, g_trace_aliases, regHist>>
ioVars    == <<stdout, stderr, result>>
runsVars  == <<heap, runs>>
nameVars  == <<nameIn, nameOut>>
exnVars   == <<exnIn, exnOut>>
flushVars == <<parr, pushed, flushOut>>
setOptVars == <<setOptIn, setOptOut>>
vars      == <<coreVars, traceVars, regVars, ioVars, runsVars, nameVars, exnVars,
               flushVars, setOptVars>>

(***************************************************************************)
(* Bounds                                                                  *)
(***************************************************************************)
MaxRecDepthBound == 2   \* options.maxRecDepth ranges over 0..MaxRecDepthBound
MaxFresh         == 2   \* mkFreshId calls per run
MaxTrace         == 1   \* trace-log messages per run
MaxRefFrames     == 1   \* withRef bodies pending at once
MaxRunOps        == 2   \* operations per run in RunsSpec
MaxNameLen       == 2   \* components of the names drawn in NameSpec
HashRange        == 3   \* number of values the hash of a non-anonymous name takes
MaxScopes        == 2   \* trace scopes nested per thread
Branching        == 2   \* children per node and messages per leaf of a persistent array
MaxPush          == 7   \* messages pushed to the array in FlushSpec
MaxOptEntries    == 2   \* entries of the options set_option is applied to

(***************************************************************************)
(* Hierarchical names (src/util/name.h): a tagged value.                   *)
(***************************************************************************)
Anonymous == [kind |-> "ANONYMOUS"]

mk_string(prefix, s) == [kind |-> "STRING", prefix |-> prefix, str |-> s]

lean_name_mk_numeral(prefix, k) == [kind |-> "NUMERAL", prefix |-> prefix, num |-> k]

is_anonymous(n) == n.kind = "ANONYMOUS"

get_prefix(n) == IF is_anonymous(n) THEN n ELSE n.prefix

is_atomic(n) == is_anonymous(n) \/ n.prefix.kind = "ANONYMOUS"

RECURSIVE is_prefix_of(_, _)
is_prefix_of(n1, n2) ==
    IF n1 = n2 THEN TRUE
    ELSE IF is_anonymous(n2) THEN FALSE
    ELSE is_prefix_of(n1, n2.prefix)

\* mutant: the constructor drops the component
name_mk_noComponent(prefix, leaf) == prefix

\* name(prefix, component), the component taken from the last one of leaf
name_mk(prefix, leaf) ==
    IF leaf.kind = "STRING" THEN mk_string(prefix, leaf.str)
    ELSE lean_name_mk_numeral(prefix, leaf.num)

RECURSIVE replace_prefix(_, _, _)
replace_prefix(n, prefix, new_prefix) ==
    IF n = prefix THEN new_prefix
    ELSE IF is_anonymous(n) THEN n
    ELSE IF ~is_prefix_of(prefix, n) THEN n
    ELSE name_mk(replace_prefix(n.prefix, prefix, new_prefix), n)

\* name::operator+ : n2's components appended to n1
RECURSIVE name_join(_, _)
name_join(n1, n2) ==
    IF is_anonymous(n2) THEN n1
    ELSE IF n2.kind = "STRING"
         THEN mk_string(name_join(n1, n2.prefix), n2.str)
         ELSE lean_name_mk_numeral(name_join(n1, n2.prefix), n2.num)

\* mutant: independent as soon as one of the two is not a prefix of the other
independent_either(a, b) == ~is_prefix_of(a, b) \/ ~is_prefix_of(b, a)

independent(a, b) == ~is_prefix_of(a, b) /\ ~is_prefix_of(b, a)

AnonymousHash == 11

StrCode(s) == CASE s = "A" -> 1 [] s = "B" -> 2 [] OTHER -> 3

\* the component of a non-anonymous name as a pair ordered numerals first
Limb(n) == IF n.kind = "STRING" THEN <<1, StrCode(n.str)>> ELSE <<0, n.num>>

\* the hash cached in the name object when it is constructed, from the hash
\* of the prefix and the component (no unsigned overflow: the sum is below
\* 2^32 here); folded into HashRange values around the hash of the
\* anonymous name so that distinct names collide
RECURSIVE hash(_)
hash(n) ==
    IF is_anonymous(n) THEN AnonymousHash
    ELSE 10 + ((31 * hash(n.prefix) + Limb(n)[2]) % HashRange)

\* name::eq_core: the same components all the way to the root
RECURSIVE eq_core(_, _)
eq_core(o1, o2) ==
    IF is_anonymous(o1) \/ is_anonymous(o2)
    THEN is_anonymous(o1) /\ is_anonymous(o2)
    ELSE /\ Limb(o1) = Limb(o2)
         /\ eq_core(o1.prefix, o2.prefix)

\* the components of a name, the root first
RECURSIVE Limbs(_)
Limbs(n) == IF is_anonymous(n) THEN <<>> ELSE Append(Limbs(n.prefix), Limb(n))

\* name::cmp_core: lexicographic order on the components from the root
RECURSIVE limbs_cmp(_, _, _)
limbs_cmp(s1, s2, i) ==
    IF i > Len(s1) /\ i > Len(s2) THEN 0
    ELSE IF i > Len(s1) THEN -1
    ELSE IF i > Len(s2) THEN 1
    ELSE IF s1[i] = s2[i] THEN limbs_cmp(s1, s2, i + 1)
    ELSE IF s1[i][1] # s2[i][1] THEN (IF s1[i][1] < s2[i][1] THEN -1 ELSE 1)
    ELSE (IF s1[i][2] < s2[i][2] THEN -1 ELSE 1)

cmp_core(o1, o2) == limbs_cmp(Limbs(o1), Limbs(o2), 1)

\* operator==(name, name); sameRaw tells whether a and b are the same
\* object (a.raw() == b.raw())
operator_eq(a, b, sameRaw) ==
    IF sameRaw THEN TRUE
    ELSE IF is_anonymous(a) # is_anonymous(b) THEN FALSE
    ELSE IF hash(a) # hash(b) THEN FALSE
    ELSE eq_core(a, b)

cmp(a, b) == cmp_core(a, b)

\* mutant: names with the same hash are taken to be equal
quick_cmp_hashOnly(a, b, sameRaw) ==
    IF sameRaw THEN 0
    ELSE LET h1 == hash(a)
             h2 == hash(b)
         IN  IF h1 # h2 THEN (IF h1 < h2 THEN -1 ELSE 1)
             ELSE 0

quick_cmp(a, b, sameRaw) ==
    IF sameRaw THEN 0
    ELSE LET h1 == hash(a)
             h2 == hash(b)
         IN  IF h1 # h2 THEN (IF h1 < h2 THEN -1 ELSE 1)
             ELSE IF operator_eq(a, b, sameRaw) THEN 0
             ELSE cmp(a, b)

(***************************************************************************)
(* Environments, declarations and the external collaborators.              *)
(***************************************************************************)
Decls == {"d1", "d2", "bad"}

IllTyped == {"bad"}     \* declarations the kernel rejects
NoCode   == {"d2"}      \* declarations the compiler backend fails on

mkEnv(ds, cs) == [decls |-> ds, compiled |-> cs]

EmptyEnv == mkEnv({}, {})

\* kernel: environment x declaration -> Except KernelException Environment
lean_add_decl(env, decl) ==
    IF decl \in IllTyped THEN [tag |-> "error", val |-> "kernel: type mismatch"]
    ELSE IF decl \in env.decls THEN [tag |-> "error", val |-> "kernel: already declared"]
    ELSE [tag |-> "ok", val |-> [env EXCEPT !.decls = @ \cup {decl}]]

\* compiler backend: environment x options x declaration -> Except KernelException Environment
lean_compile_decl(env, opts, decl) ==
    IF decl \notin env.decls THEN [tag |-> "error", val |-> "compiler: unknown declaration"]
    ELSE IF decl \in NoCode THEN [tag |-> "error", val |-> "compiler: code generation failed"]
    ELSE [tag |-> "ok", val |-> [env EXCEPT !.compiled = @ \cup {decl}]]

(***************************************************************************)
(* Exceptions, contexts, states, results.                                  *)
(***************************************************************************)
Exception_io(err)           == [tag |-> "io", err |-> err]
Exception_kernel(ex, opts)  == [tag |-> "kernel", ex |-> ex, opts |-> opts]
Exception_error(ref, msg)   == [tag |-> "error", ref |-> ref, msg |-> msg]

maxRecDepthErrorMessage == "maximum recursion depth has been reached"

mkOptions(d) == [maxRecDepth |-> d]

getMaxRecDepth(opts) == opts.maxRecDepth

mkContext(opts, curr, max, ref) ==
    [options |-> opts, currRecDepth |-> curr, maxRecDepth |-> max, ref |-> ref]

mkState(env, ngen, ts) == [env |-> env, ngen |-> ngen, traceState |-> ts]

NameGenerator_Inhabited == [namePrefix |-> mk_string(Anonymous, "_uniq"), idx |-> 1]

TraceState_Inhabited == <<>>

\* an EIO result: Result.ok (tag 0) or Result.error (tag 1) with the world
\* after the call; calls lists, in order, the accesses to the reference
\* cell and the collaborator calls made on the way
mkOk(v, c, calls)    == [tag |-> "ok", val |-> v, cell |-> c, calls |-> calls]
mkError(e, c, calls) == [tag |-> "error", val |-> e, cell |-> c, calls |-> calls]

Unit == "unit"

\* an access to the reference cell: "get", "take" or "set"
refCall(op) == [who |-> "ref", op |-> op]

\* IO.Ref primitives
io_ref_get(c) == c[1]
io_ref_take(c) == [val |-> c[1], cell |-> <<>>]
io_ref_set(c, v) == <<v>>

(***************************************************************************)
(* CoreM operations.  Each takes the context and the world (the content of *)
(* the reference cell) and returns an EIO result.                          *)
(***************************************************************************)
\* mutant: the error result carries the state the run started with
throwError_rollback(msg, ctx, c) ==
    mkError(Exception_error(ctx.ref, msg),
            <<mkState(EmptyEnv, NameGenerator_Inhabited, TraceState_Inhabited)>>, <<>>)

throwError(msg, ctx, c) == mkError(Exception_error(ctx.ref, msg), c, <<>>)

\* rendering: MessageData to Format to String
MessageData_formatAux(m) == <<"format", m>>

Format_pretty(f) == <<"pretty", f>>

KernelException_toMessageData(ex, opts) == <<"kernel", ex, opts>>

lean_io_error_to_string(err) == <<"toString", err>>

MessageData_ofFormat(f) == [tag |-> "ofFormat", fmt |-> f]

Format_text(s) == [tag |-> "text", s |-> s]

Options_empty == <<>>

\* mutant: the kernel formatter is given the empty options
Exception_toMessageData_noOpts(x_1) ==
    CASE x_1.tag = "io" ->
            MessageData_ofFormat(Format_text(lean_io_error_to_string(x_1.err)))
      [] x_1.tag = "kernel" -> KernelException_toMessageData(x_1.ex, Options_empty)
      [] OTHER -> x_1.msg

Exception_toMessageData(x_1) ==
    CASE x_1.tag = "io" ->
            MessageData_ofFormat(Format_text(lean_io_error_to_string(x_1.err)))
      [] x_1.tag = "kernel" -> KernelException_toMessageData(x_1.ex, x_1.opts)
      [] OTHER -> x_1.msg

Exception_hasToString(x_1) ==
    Format_pretty(MessageData_formatAux(Exception_toMessageData(x_1)))

IO_userError(s) == [tag |-> "userError", msg |-> s]

\* the error of a failed write
IoWriteError == [tag |-> "ioError", msg |-> <<"write">>]

NewLine == <<"\n">>

\* the IO world as far as the run is concerned: the chunks on standard
\* output and the number of writes attempted
mkWorld(out, n) == [out |-> out, n |-> n]

\* a write of chunk s to the standard output handle; the failAt-th write of
\* the run fails (none when failAt = 0)
IO_put_str(s, w, failAt) ==
    IF w.n + 1 = failAt
    THEN [tag |-> "error", val |-> IoWriteError, w |-> mkWorld(w.out, w.n + 1)]
    ELSE [tag |-> "ok", val |-> Unit, w |-> mkWorld(Append(w.out, s), w.n + 1)]

IO_print(fmt, w, failAt) == IO_put_str(Format_pretty(fmt), w, failAt)

IO_println(fmt, w, failAt) ==
    LET x_3 == IO_print(fmt, w, failAt)
    IN  IF x_3.tag = "ok" THEN IO_put_str(NewLine, x_3.w, failAt) ELSE x_3

\* nodes of a persistent array
mkNode(cs) == [tag |-> "node", cs |-> cs]

mkLeaf(vs) == [tag |-> "leaf", vs |-> vs]

\* the persistent array a trace state holds: the messages appended so far
\* are in the tail, under an empty root
TraceState_traces(ts) == [root |-> mkNode(<<>>), tail |-> ts]

\* the empty persistent array: an empty root of depth 1 (its children are
\* leaves) and an empty tail
PersistentArray_empty == [root |-> mkNode(<<>>), tail |-> <<>>, depth |-> 1]

\* a node of depth d with no room for another leaf
RECURSIVE PersistentArray_full(_, _)
PersistentArray_full(node, d) ==
    /\ Len(node.cs) = Branching
    /\ (d > 1 => PersistentArray_full(node.cs[Len(node.cs)], d - 1))

\* a chain of d nodes above the leaf
RECURSIVE mkNewPath(_, _)
mkNewPath(d, leaf) == IF d = 0 THEN leaf ELSE mkNode(<<mkNewPath(d - 1, leaf)>>)

\* the leaf put after the last leaf of a node of depth d that is not full
RECURSIVE insertNewLeaf(_, _, _)
insertNewLeaf(node, d, leaf) ==
    IF d = 1 THEN mkNode(Append(node.cs, leaf))
    ELSE LET k == Len(node.cs)
         IN  IF k > 0 /\ ~PersistentArray_full(node.cs[k], d - 1)
             THEN mkNode([node.cs EXCEPT ![k] = insertNewLeaf(@, d - 1, leaf)])
             ELSE mkNode(Append(node.cs, mkNewPath(d - 1, leaf)))

\* the full tail becomes the last leaf of the tree, under a new root when
\* the tree is full
mkNewTail(t) ==
    IF PersistentArray_full(t.root, t.depth)
    THEN [root  |-> mkNode(<<t.root, mkNewPath(t.depth, mkLeaf(t.tail))>>),
          tail  |-> <<>>,
          depth |-> t.depth + 1]
    ELSE [root  |-> insertNewLeaf(t.root, t.depth, mkLeaf(t.tail)),
          tail  |-> <<>>,
          depth |-> t.depth]

\* PersistentArray.push
PersistentArray_push(t, a) ==
    LET r == [t EXCEPT !.tail = Append(@, a)]
    IN  IF Len(r.tail) < Branching THEN r ELSE mkNewTail(r)

\* Array.forMAux over the messages of a leaf, from index i: each message is
\* formatted and printed with println; a failed print ends the loop with
\* Exception.io
RECURSIVE Array_forMAux_6(_, _, _, _)
Array_forMAux_6(xs, i, w, failAt) ==
    IF ~(i < Len(xs)) THEN [tag |-> "ok", val |-> Unit, w |-> w]
    ELSE LET x_13 == IO_println(MessageData_formatAux(xs[i + 1]), w, failAt)
         IN  IF x_13.tag = "ok"
             THEN Array_forMAux_6(xs, i + 1, x_13.w, failAt)
             ELSE [tag |-> "error", val |-> Exception_io(x_13.val), w |-> x_13.w]

\* PersistentArray.forMAux on a node, and Array.forMAux over the children of
\* an internal node from index i
RECURSIVE PersistentArray_forMAux(_, _, _)
RECURSIVE Array_forMAux_5(_, _, _, _)
PersistentArray_forMAux(node, w, failAt) ==
    IF node.tag = "node"
    THEN Array_forMAux_5(node.cs, 0, w, failAt)
    ELSE Array_forMAux_6(node.vs, 0, w, failAt)

Array_forMAux_5(cs, i, w, failAt) ==
    IF ~(i < Len(cs)) THEN [tag |-> "ok", val |-> Unit, w |-> w]
    ELSE LET x_11 == PersistentArray_forMAux(cs[i + 1], w, failAt)
         IN  IF x_11.tag = "ok"
             THEN Array_forMAux_5(cs, i + 1, x_11.w, failAt)
             ELSE x_11

\* mutant: the tail is printed before the root
PersistentArray_forM_tailFirst(t, w, failAt) ==
    LET x_7 == Array_forMAux_6(t.tail, 0, w, failAt)
    IN  IF x_7.tag = "ok"
        THEN PersistentArray_forMAux(t.root, x_7.w, failAt)
        ELSE x_7

\* PersistentArray.forM: the root, then the tail
PersistentArray_forM(t, w, failAt) ==
    LET x_7 == PersistentArray_forMAux(t.root, w, failAt)
    IN  IF x_7.tag = "ok"
        THEN Array_forMAux_6(t.tail, 0, x_7.w, failAt)
        ELSE x_7

\* mutant: the failure is returned after the name generator has advanced
checkRecDepth_partial(ctx, c) ==
    IF ctx.currRecDepth # ctx.maxRecDepth
    THEN mkOk(Unit, c, <<>>)
    ELSE throwError(maxRecDepthErrorMessage, ctx,
                    <<[c[1] EXCEPT !.ngen.idx = @ + 1]>>)

\* mutant: the fence compares with > instead of ==
checkRecDepth_offByOne(ctx, c) ==
    IF ~(ctx.currRecDepth > ctx.maxRecDepth)
    THEN mkOk(Unit, c, <<>>)
    ELSE throwError(maxRecDepthErrorMessage, ctx, c)

checkRecDepth(ctx, c) ==
    IF ctx.currRecDepth # ctx.maxRecDepth
    THEN mkOk(Unit, c, <<>>)
    ELSE throwError(maxRecDepthErrorMessage, ctx, c)

\* mutant: the depth does not advance
Context_incCurrRecDepth_keep(ctx) == ctx

\* mutant: the depth advances by two
Context_incCurrRecDepth_byTwo(ctx) == [ctx EXCEPT !.currRecDepth = @ + 2]

Context_incCurrRecDepth(ctx) == [ctx EXCEPT !.currRecDepth = @ + 1]

\* the part of withIncRecDepth before the body is applied: apply tells
\* whether the body runs, ctx is the context it runs in
withIncRecDepth(ctx, c) ==
    LET x_5 == checkRecDepth(ctx, c)
    IN  IF x_5.tag = "ok"
        THEN [apply |-> TRUE, ctx |-> Context_incCurrRecDepth(ctx), res |-> x_5]
        ELSE [apply |-> FALSE, ctx |-> ctx, res |-> x_5]

getEnv(c) == mkOk(io_ref_get(c).env, c, <<refCall("get")>>)

\* mutant: the taken state is set back as it was
setEnv_stale(env, ctx, c) ==
    LET x_5 == io_ref_take(c)
    IN  mkOk(Unit, io_ref_set(x_5.cell, x_5.val), <<refCall("take"), refCall("set")>>)

\* mutant: the state set back is built with the default name generator
setEnv_newGenerator(env, ctx, c) ==
    LET x_5 == io_ref_take(c)
        x_6 == mkState(env, NameGenerator_Inhabited, x_5.val.traceState)
    IN  mkOk(Unit, io_ref_set(x_5.cell, x_6), <<refCall("take"), refCall("set")>>)

setEnv(env, ctx, c) ==
    LET x_5 == io_ref_take(c)
        x_6 == [x_5.val EXCEPT !.env = env]
    IN  mkOk(Unit, io_ref_set(x_5.cell, x_6), <<refCall("take"), refCall("set")>>)

\* the functions handed to modifyEnv
EnvFns == {"eraseCompiled", "addAxiom"}

applyEnvFn(f, env) ==
    IF f = "eraseCompiled" THEN [env EXCEPT !.compiled = {}]
    ELSE [env EXCEPT !.decls = @ \cup {"d1"}]

\* mutant: the taken state is not set back
modifyEnv_noSet(f, ctx, c) ==
    LET x_5 == io_ref_take(c)
    IN  mkOk(Unit, x_5.cell, <<refCall("take")>>)

modifyEnv(f, ctx, c) ==
    LET x_5 == io_ref_take(c)
        x_6 == [x_5.val EXCEPT !.env = applyEnvFn(f, @)]
    IN  mkOk(Unit, io_ref_set(x_5.cell, x_6), <<refCall("take"), refCall("set")>>)

getOptions(ctx, c) == mkOk(ctx.options, c, <<>>)

getTraceState(c) == mkOk(io_ref_get(c).traceState, c, <<refCall("get")>>)

\* mutant: the name is derived from the taken state, without a read before
mkFreshId_takeFirst(c) ==
    LET x_10 == io_ref_take(c)
        x_9  == lean_name_mk_numeral(x_10.val.ngen.namePrefix, x_10.val.ngen.idx)
        x_11 == [x_10.val EXCEPT !.ngen.idx = @ + 1]
    IN  mkOk(x_9, io_ref_set(x_10.cell, x_11), <<refCall("take"), refCall("set")>>)

\* mutant: the generator is set back without the increment
mkFreshId_noInc(c) ==
    LET x_4  == io_ref_get(c)
        x_9  == lean_name_mk_numeral(x_4.ngen.namePrefix, x_4.ngen.idx)
        x_10 == io_ref_take(c)
    IN  mkOk(x_9, io_ref_set(x_10.cell, x_10.val), <<refCall("get"), refCall("take"), refCall("set")>>)

\* mutant: the name is derived after the increment
mkFreshId_incFirst(c) ==
    LET x_10 == io_ref_take(c)
        x_11 == [x_10.val EXCEPT !.ngen.idx = @ + 1]
        x_9  == lean_name_mk_numeral(x_11.ngen.namePrefix, x_11.ngen.idx)
    IN  mkOk(x_9, io_ref_set(x_10.cell, x_11), <<refCall("take"), refCall("set")>>)

mkFreshId(c) ==
    LET x_4  == io_ref_get(c)
        x_9  == lean_name_mk_numeral(x_4.ngen.namePrefix, x_4.ngen.idx)
        x_10 == io_ref_take(c)
        x_11 == [x_10.val EXCEPT !.ngen.idx = @ + 1]
    IN  mkOk(x_9, io_ref_set(x_10.cell, x_11), <<refCall("get"), refCall("take"), refCall("set")>>)

\* source references: "noPos" is a Syntax without a position
Refs == {"noPos", "pos1"}

Syntax_missing == "noPos"

Syntax_getPos(ref) == IF ref = "noPos" THEN <<>> ELSE <<ref>>

replaceRef(ref, oldRef) == IF Syntax_getPos(ref) = <<>> THEN oldRef ELSE ref

Context_replaceRef(ref, ctx) == [ctx EXCEPT !.ref = replaceRef(ref, @)]

withRef(ref, ctx) == Context_replaceRef(ref, ctx)

\* tracer's modifyTraceState: the function applied appends one message
tracer_lambda_1(msg, ctx, c) ==
    LET x_5 == io_ref_take(c)
        x_6 == [x_5.val EXCEPT !.traceState = Append(@, msg)]
    IN  mkOk(Unit, io_ref_set(x_5.cell, x_6), <<refCall("take"), refCall("set")>>)

kernelCall(env, decl) == [who |-> "kernel", env |-> env, decl |-> decl]

compilerCall(env, opts, decl) == [who |-> "compiler", env |-> env, decl |-> decl, opts |-> opts]

\* kernel: environment x name -> Option ConstantInfo, <<info>> or <<>>
lean_environment_find(env, n) ==
    IF n \in env.decls THEN <<[constant |-> n]>> ELSE <<>>

MessageData_ofName(n) == [tag |-> "ofName", name |-> n]

MessageData_compose(a, b) == [tag |-> "compose", a |-> a, b |-> b]

\* "unknown constant '" ++ n ++ "'"
unknownConstantMessage(n) ==
    MessageData_compose(
        MessageData_compose(MessageData_ofFormat(Format_text("unknown constant '")),
                            MessageData_ofName(n)),
        MessageData_ofFormat(Format_text("'")))

\* mutant: the error is thrown without the source reference of the context
getConstInfo_noRef(n, ctx, c) ==
    LET x_5 == getEnv(c)
        x_9 == lean_environment_find(x_5.val, n)
    IN  IF x_9 = <<>>
        THEN [throwError(unknownConstantMessage(n),
                         [ctx EXCEPT !.ref = Syntax_missing], x_5.cell)
                EXCEPT !.calls = x_5.calls \o @]
        ELSE mkOk(x_9[1], x_5.cell, x_5.calls)

getConstInfo(n, ctx, c) ==
    LET x_5 == getEnv(c)
        x_9 == lean_environment_find(x_5.val, n)
    IN  IF x_9 = <<>>
        THEN [throwError(unknownConstantMessage(n), ctx, x_5.cell)
                EXCEPT !.calls = x_5.calls \o @]
        ELSE mkOk(x_9[1], x_5.cell, x_5.calls)

\* mutant: the declaration is installed before the kernel has answered
addDecl_optimistic(decl, ctx, c) ==
    LET x_6 == getEnv(c).val
        x_8 == lean_add_decl(x_6, decl)
        log == getEnv(c).calls \o <<kernelCall(x_6, decl)>>
        opt == setEnv([x_6 EXCEPT !.decls = @ \cup {decl}], ctx, c)
    IN  IF x_8.tag = "error"
        THEN mkError(Exception_kernel(x_8.val, getOptions(ctx, c).val), opt.cell, log)
        ELSE [setEnv(x_8.val, ctx, c) EXCEPT !.calls = log \o @]

\* mutant: the exception carries options made on the spot, not the
\* options of the context
addDecl_freshOptions(decl, ctx, c) ==
    LET x_6 == getEnv(c).val
        x_8 == lean_add_decl(x_6, decl)
        log == getEnv(c).calls \o <<kernelCall(x_6, decl)>>
    IN  IF x_8.tag = "error"
        THEN mkError(Exception_kernel(x_8.val, mkOptions(0)), c, log)
        ELSE [setEnv(x_8.val, ctx, c) EXCEPT !.calls = log \o @]

addDecl(decl, ctx, c) ==
    LET x_6 == getEnv(c).val
        x_8 == lean_add_decl(x_6, decl)
        log == getEnv(c).calls \o <<kernelCall(x_6, decl)>>
    IN  IF x_8.tag = "error"
        THEN mkError(Exception_kernel(x_8.val, getOptions(ctx, c).val), c, log)
        ELSE [setEnv(x_8.val, ctx, c) EXCEPT !.calls = log \o @]

\* mutant: the environment returned by the backend is dropped
compileDecl_discard(decl, ctx, c) ==
    LET x_6  == getEnv(c).val
        x_9  == getOptions(ctx, c).val
        x_11 == lean_compile_decl(x_6, x_9, decl)
        log  == getEnv(c).calls \o <<compilerCall(x_6, x_9, decl)>>
    IN  IF x_11.tag = "error"
        THEN mkError(Exception_kernel(x_11.val, getOptions(ctx, c).val), c, log)
        ELSE mkOk(Unit, c, log)

compileDecl(decl, ctx, c) ==
    LET x_6  == getEnv(c).val
        x_9  == getOptions(ctx, c).val
        x_11 == lean_compile_decl(x_6, x_9, decl)
        log  == getEnv(c).calls \o <<compilerCall(x_6, x_9, decl)>>
    IN  IF x_11.tag = "error"
        THEN mkError(Exception_kernel(x_11.val, getOptions(ctx, c).val), c, log)
        ELSE [setEnv(x_11.val, ctx, c) EXCEPT !.calls = log \o @]

\* mutant: compileDecl is given the world from before addDecl
addAndCompile_staleWorld(decl, ctx, c) ==
    LET x_5 == addDecl(decl, ctx, c)
    IN  IF x_5.tag = "ok"
        THEN LET x_7 == compileDecl(decl, ctx, c)
             IN  [x_7 EXCEPT !.calls = x_5.calls \o @]
        ELSE x_5

\* mutant: a failed compileDecl undoes the addDecl
addAndCompile_rollback(decl, ctx, c) ==
    LET x_5 == addDecl(decl, ctx, c)
    IN  IF x_5.tag = "ok"
        THEN LET x_7 == compileDecl(decl, ctx, x_5.cell)
             IN  IF x_7.tag = "ok"
                 THEN [x_7 EXCEPT !.calls = x_5.calls \o @]
                 ELSE [x_7 EXCEPT !.calls = x_5.calls \o @, !.cell = c]
        ELSE x_5

\* mutant: compileDecl is called whatever addDecl returned
addAndCompile_always(decl, ctx, c) ==
    LET x_5 == addDecl(decl, ctx, c)
        x_7 == compileDecl(decl, ctx, x_5.cell)
    IN  IF x_5.tag = "ok"
        THEN [x_7 EXCEPT !.calls = x_5.calls \o @]
        ELSE [x_5 EXCEPT !.calls = @ \o x_7.calls]

addAndCompile(decl, ctx, c) ==
    LET x_5 == addDecl(decl, ctx, c)
    IN  IF x_5.tag = "ok"
        THEN LET x_7 == compileDecl(decl, ctx, x_5.cell)
             IN  [x_7 EXCEPT !.calls = x_5.calls \o @]
        ELSE x_5

(***************************************************************************)
(* One run, step by step.                                                  *)
(***************************************************************************)
InitialEnvs == {EmptyEnv}

SetEnvArgs == {mkEnv({"d2"}, {"d2"})}

Messages == {"m1"}

mkFrame(kind, ctx) == [kind |-> kind, ctx |-> ctx]

Top == stack[Len(stack)]

Pop(stk) == SubSeq(stk, 1, Len(stk) - 1)

NestCount(stk) == Cardinality({i \in 1..Len(stk) : stk[i].kind = "withIncRecDepth"})

RefCount(stk) == Cardinality({i \in 1..Len(stk) : stk[i].kind = "withRef"})

mkLast(op, arg, r, applied) ==
    [op |-> op, arg |-> arg, ctx |-> Top.ctx, pre |-> cell, tag |-> r.tag,
     val |-> r.val, calls |-> r.calls, nest |-> NestCount(stack),
     applied |-> applied]

NoLast ==
    [op |-> "none", arg |-> Unit, ctx |-> mkContext(mkOptions(0), 0, 0, Syntax_missing),
     pre |-> <<>>, tag |-> "ok", val |-> Unit, calls |-> <<>>, nest |-> 0,
     applied |-> FALSE]

InitIO ==
    /\ stdout = <<>>
    /\ stderr = <<>>
    /\ result = <<>>

InitCore ==
    /\ phase = "Start"
    /\ options \in {mkOptions(d) : d \in 0..MaxRecDepthBound}
    /\ initialEnv \in InitialEnvs
    /\ stack = <<>>
    /\ cell = <<>>
    /\ pending = <<>>
    /\ last = NoLast
    /\ freshIds = <<>>

\* run / runCore up to the application of the action: the context starts at
\* depth 0 with the options' maxRecDepth, the state in a new reference cell
run_context(opts) == mkContext(opts, 0, getMaxRecDepth(opts), Syntax_missing)

run_state(env) == mkState(env, NameGenerator_Inhabited, TraceState_Inhabited)

Run ==
    /\ phase = "Start"
    /\ phase' = "Running"
    /\ stack' = <<mkFrame("run", run_context(options))>>
    /\ cell' = <<run_state(initialEnv)>>
    /\ UNCHANGED <<options, initialEnv, pending, last, freshIds>>

\* mutant: operations go on after the run has returned
CanOp_anyTime == phase # "Start" /\ pending = <<>>

CanOp == phase = "Running" /\ pending = <<>>

\* an operation that applies no body: the result goes to the caller
Do(op, arg, r) ==
    /\ cell' = r.cell
    /\ pending' = IF r.tag = "error" THEN <<r.val>> ELSE <<>>
    /\ last' = mkLast(op, arg, r, FALSE)
    /\ UNCHANGED <<phase, options, initialEnv, stack>>

GetEnv == CanOp /\ Do("getEnv", Unit, getEnv(cell)) /\ UNCHANGED freshIds

SetEnv ==
    /\ CanOp
    /\ \E e \in SetEnvArgs : Do("setEnv", e, setEnv(e, Top.ctx, cell))
    /\ UNCHANGED freshIds

ModifyEnv ==
    /\ CanOp
    /\ \E f \in EnvFns : Do("modifyEnv", f, modifyEnv(f, Top.ctx, cell))
    /\ UNCHANGED freshIds

GetOptions == CanOp /\ Do("getOptions", Unit, getOptions(Top.ctx, cell)) /\ UNCHANGED freshIds

GetTraceState == CanOp /\ Do("getTraceState", Unit, getTraceState(cell)) /\ UNCHANGED freshIds

MkFreshId ==
    /\ CanOp
    /\ Len(freshIds) < MaxFresh
    /\ LET r == mkFreshId(cell)
       IN  /\ Do("mkFreshId", Unit, r)
           /\ freshIds' = Append(freshIds, r.val)

ModifyTraceState ==
    /\ CanOp
    /\ Len(io_ref_get(cell).traceState) < MaxTrace
    /\ \E m \in Messages : Do("modifyTraceState", m, tracer_lambda_1(m, Top.ctx, cell))
    /\ UNCHANGED freshIds

AddDecl ==
    /\ CanOp
    /\ \E d \in Decls : Do("addDecl", d, addDecl(d, Top.ctx, cell))
    /\ UNCHANGED freshIds

CompileDecl ==
    /\ CanOp
    /\ \E d \in Decls : Do("compileDecl", d, compileDecl(d, Top.ctx, cell))
    /\ UNCHANGED freshIds

AddAndCompile ==
    /\ CanOp
    /\ \E d \in Decls : Do("addAndCompile", d, addAndCompile(d, Top.ctx, cell))
    /\ UNCHANGED freshIds

GetConstInfo ==
    /\ CanOp
    /\ \E d \in Decls : Do("getConstInfo", d, getConstInfo(d, Top.ctx, cell))
    /\ UNCHANGED freshIds

ThrowError ==
    /\ CanOp
    /\ Do("throwError", "user error", throwError("user error", Top.ctx, cell))
    /\ UNCHANGED freshIds

CheckRecDepth ==
    /\ CanOp
    /\ Do("checkRecDepth", Unit, checkRecDepth(Top.ctx, cell))
    /\ UNCHANGED freshIds

\* withIncRecDepth up to the application of its body
WithIncRecDepth ==
    /\ CanOp
    /\ LET w == withIncRecDepth(Top.ctx, cell)
       IN  /\ stack' = IF w.apply THEN Append(stack, mkFrame("withIncRecDepth", w.ctx))
                       ELSE stack
           /\ cell' = w.res.cell
           /\ pending' = IF w.res.tag = "error" THEN <<w.res.val>> ELSE <<>>
           /\ last' = mkLast("withIncRecDepth", Unit, w.res, w.apply)
    /\ UNCHANGED <<phase, options, initialEnv, freshIds>>

\* withRef up to the application of its body
WithRef ==
    /\ CanOp
    /\ RefCount(stack) < MaxRefFrames
    /\ \E ref \in Refs :
          /\ stack' = Append(stack, mkFrame("withRef", withRef(ref, Top.ctx)))
          /\ last' = mkLast("withRef", ref, mkOk(Unit, cell, <<>>), TRUE)
    /\ UNCHANGED <<phase, options, initialEnv, cell, pending, freshIds>>

\* the body of the innermost withIncRecDepth / withRef ends: its result, a
\* value or the pending exception, is returned as it is to the caller
Return ==
    /\ phase = "Running"
    /\ Len(stack) > 1
    /\ stack' = Pop(stack)
    /\ last' = [mkLast("return", Top.kind, mkOk(Unit, cell, <<>>), FALSE)
                  EXCEPT !.tag = IF pending = <<>> THEN "ok" ELSE "error"]
    /\ UNCHANGED <<phase, options, initialEnv, cell, pending, freshIds>>

\* the caller inspects an error result and goes on
Recover ==
    /\ phase = "Running"
    /\ pending # <<>>
    /\ pending' = <<>>
    /\ last' = mkLast("recover", Unit, mkOk(Unit, cell, <<>>), FALSE)
    /\ UNCHANGED <<phase, options, initialEnv, stack, cell, freshIds>>

\* block_25 of run / runCore: the exception x_5 becomes the IO error
runCore_block_25(x_5, w) ==
    CASE x_5.tag = "io" ->
            [tag |-> "error", val |-> x_5.err, w |-> w]
      [] x_5.tag = "kernel" ->
            [tag |-> "error",
             val |-> IO_userError(Format_pretty(MessageData_formatAux(
                         KernelException_toMessageData(x_5.ex, x_5.opts)))),
             w |-> w]
      [] OTHER ->
            [tag |-> "error",
             val |-> IO_userError(Format_pretty(MessageData_formatAux(x_5.msg))),
             w |-> w]

\* mutant: a failed flush is dropped and the outcome of the action returned
runCore_block_61_dropFlushError(x_36, c, w, failAt) ==
    LET x_40 == getTraceState(c).val
        x_43 == PersistentArray_forM(TraceState_traces(x_40), w, failAt)
    IN  IF x_36.tag = "error"
        THEN runCore_block_25(x_36.val, x_43.w)
        ELSE [tag |-> "ok", val |-> x_36.val, w |-> x_43.w]

\* block_61 of run / runCore: x_36 is Except.ok of the pair (environment,
\* value) or Except.error of the exception; the traces are printed, then
\* the IO result is built
runCore_block_61(x_36, c, w, failAt) ==
    LET x_40 == getTraceState(c).val
        x_43 == PersistentArray_forM(TraceState_traces(x_40), w, failAt)
    IN  IF x_36.tag = "error"
        THEN (IF x_43.tag = "ok"
              THEN runCore_block_25(x_36.val, x_43.w)
              ELSE runCore_block_25(x_43.val, x_43.w))
        ELSE (IF x_43.tag = "ok"
              THEN [tag |-> "ok", val |-> x_36.val, w |-> x_43.w]
              ELSE runCore_block_25(x_43.val, x_43.w))

\* mutant: the result is built without printing the traces
runCore_end_noFlush(x_62, c, w, failAt) ==
    IF x_62.tag = "ok"
    THEN [tag |-> "ok", val |-> <<getEnv(c).val, x_62.val>>, w |-> w]
    ELSE runCore_block_25(x_62.val, w)

\* mutant: the environment returned is not the one in the cell
runCore_end_noEnv(x_62, c, w, failAt) ==
    LET x_36 == IF x_62.tag = "ok"
                THEN [tag |-> "ok", val |-> <<EmptyEnv, x_62.val>>]
                ELSE [tag |-> "error", val |-> x_62.val]
    IN  runCore_block_61(x_36, c, w, failAt)

\* runCore from the return of the action, whose result is x_62
runCore_end(x_62, c, w, failAt) ==
    LET x_36 == IF x_62.tag = "ok"
                THEN [tag |-> "ok", val |-> <<getEnv(c).val, x_62.val>>]
                ELSE [tag |-> "error", val |-> x_62.val]
    IN  runCore_block_61(x_36, c, w, failAt)

\* run from the return of the action: as runCore, but only the value of the
\* pair is returned
run_end(x_62, c, w, failAt) ==
    LET x_52 == runCore_end(x_62, c, w, failAt)
    IN  IF x_52.tag = "ok" THEN [x_52 EXCEPT !.val = @[2]] ELSE x_52

\* the number of writes a flush of the cell's traces attempts
FlushWrites == 2 * Len(io_ref_get(cell).traceState)

\* the action given to run / runCore returns a value or an exception; the
\* entry point prints the traces and returns.  run and runCore differ only
\* in what they return, so the entry point is chosen here.
Finish ==
    /\ phase = "Running"
    /\ Len(stack) = 1
    /\ \E entry \in {"run", "runCore"} : \E failAt \in 0..FlushWrites :
          LET x_62 == IF pending = <<>> THEN [tag |-> "ok", val |-> Unit]
                      ELSE [tag |-> "error", val |-> pending[1]]
              r    == IF entry = "run"
                      THEN run_end(x_62, cell, mkWorld(stdout, 0), failAt)
                      ELSE runCore_end(x_62, cell, mkWorld(stdout, 0), failAt)
          IN  /\ stdout' = r.w.out
              /\ result' = <<[entry |-> entry, tag |-> r.tag, val |-> r.val,
                              failAt |-> failAt]>>
              /\ phase' = IF r.tag = "ok" THEN "Completed" ELSE "Failed"
    /\ UNCHANGED <<options, initialEnv, stack, cell, pending, last, freshIds, stderr>>

(***************************************************************************)
(* The functions on names applied to drawn inputs.                         *)
(***************************************************************************)
Strs == {"A", "B"}

Nums == {1}

RECURSIVE NamesUpTo(_)
NamesUpTo(k) ==
    IF k = 0 THEN {Anonymous}
    ELSE LET P == NamesUpTo(k - 1)
         IN  P \cup {mk_string(p, s) : p \in P, s \in Strs}
               \cup {lean_name_mk_numeral(p, m) : p \in P, m \in Nums}

Names == NamesUpTo(MaxNameLen)

\* the names appended by mk and operator+
Suffixes == NamesUpTo(1) \cup {mk_string(mk_string(Anonymous, "A"), "B")}

\* two scalars are the same object, and the same object is the same name
NameInputs ==
    {x \in [a : Names, b : Names, c : Suffixes, d : Suffixes, sameRaw : BOOLEAN] :
        /\ x.sameRaw => x.a = x.b
        /\ (is_anonymous(x.a) /\ is_anonymous(x.b)) => x.sameRaw}

NoNames == [a |-> Anonymous, b |-> Anonymous, c |-> Anonymous, d |-> Anonymous,
            sameRaw |-> TRUE]

InitNames ==
    /\ nameIn = NoNames
    /\ nameOut = [op |-> "none"]

\* independent on a and b, and on a and b extended by one component each
NameMk ==
    /\ nameOut.op = "none"
    /\ ~is_anonymous(nameIn.c) /\ is_atomic(nameIn.c)
    /\ ~is_anonymous(nameIn.d) /\ is_atomic(nameIn.d)
    /\ nameOut' = [op   |-> "mk",
                   ind  |-> independent(nameIn.a, nameIn.b),
                   ind2 |-> independent(name_mk(nameIn.a, nameIn.c),
                                        name_mk(nameIn.b, nameIn.d))]
    /\ UNCHANGED nameIn

\* independent on a and b, and on a + c and b + d
NameJoin ==
    /\ nameOut.op = "none"
    /\ nameOut' = [op   |-> "join",
                   ind  |-> independent(nameIn.a, nameIn.b),
                   ind2 |-> independent(name_join(nameIn.a, nameIn.c),
                                        name_join(nameIn.b, nameIn.d))]
    /\ UNCHANGED nameIn

\* ==, hash, quick_cmp and cmp on a and b
NameCompare ==
    /\ nameOut.op = "none"
    /\ nameOut' = [op |-> "compare",
                   eq |-> operator_eq(nameIn.a, nameIn.b, nameIn.sameRaw),
                   h1 |-> hash(nameIn.a),
                   h2 |-> hash(nameIn.b),
                   qc |-> quick_cmp(nameIn.a, nameIn.b, nameIn.sameRaw),
                   c  |-> cmp(nameIn.a, nameIn.b)]
    /\ UNCHANGED nameIn

\* a.replace_prefix(b, c)
NameReplacePrefix ==
    /\ nameOut.op = "none"
    /\ nameOut' = [op  |-> "replace",
                   res |-> replace_prefix(nameIn.a, nameIn.b, nameIn.c)]
    /\ UNCHANGED nameIn

(***************************************************************************)
(* The conversions of exceptions applied to drawn inputs.                  *)
(***************************************************************************)
IoErrors ==
    {IoWriteError, [tag |-> "ioError", msg |-> <<"no such file">>],
     [tag |-> "ioError", msg |-> <<"end of file">>],
     IO_userError(<<"interrupted">>), IO_userError(<<"user">>)}

KernelExceptions ==
    {"kernel: type mismatch", "kernel: already declared",
     "kernel: unknown constant", "compiler: unknown declaration",
     "compiler: code generation failed"}

ErrorMessages == {maxRecDepthErrorMessage, "user error", "m1", "m2"}

Exceptions ==
    {Exception_io(e) : e \in IoErrors}
    \cup {Exception_kernel(ex, mkOptions(d)) :
              ex \in KernelExceptions, d \in 0..MaxRecDepthBound}
    \cup {Exception_error(ref, m) : ref \in Refs, m \in ErrorMessages}

InitExn ==
    /\ exnIn = Exception_error(Syntax_missing, "m1")
    /\ exnOut = [op |-> "none"]

ExnToMessageData ==
    /\ exnOut.op = "none"
    /\ exnOut' = [op |-> "toMessageData", md |-> <<Exception_toMessageData(exnIn)>>]
    /\ UNCHANGED exnIn

ExnHasToString ==
    /\ exnOut.op = "none"
    /\ exnOut' = [op |-> "hasToString", str |-> Exception_hasToString(exnIn)]
    /\ UNCHANGED exnIn

\* the exception as the error run / runCore returns
ExnToIOError ==
    /\ exnOut.op = "none"
    /\ exnOut' = [op |-> "ioError", err |-> runCore_block_25(exnIn, mkWorld(<<>>, 0)).val]
    /\ UNCHANGED exnIn

(***************************************************************************)
(* The flush of a persistent array of messages.                            *)
(***************************************************************************)
PushArgs == {"m1", "m2"}

InitFlush ==
    /\ parr = PersistentArray_empty
    /\ pushed = <<>>
    /\ flushOut = <<>>

\* a message is appended to the trace log
Push ==
    /\ flushOut = <<>>
    /\ Len(pushed) < MaxPush
    /\ \E m \in PushArgs :
          /\ parr' = PersistentArray_push(parr, m)
          /\ pushed' = Append(pushed, m)
    /\ UNCHANGED flushOut

\* the log is printed as run / runCore print it; the failAt-th write fails
Flush ==
    /\ flushOut = <<>>
    /\ \E failAt \in 0..(2 * Len(pushed)) :
          LET x_43 == PersistentArray_forM(parr, mkWorld(<<>>, 0), failAt)
          IN  flushOut' = <<[op |-> "forM", tag |-> x_43.tag, out |-> x_43.w.out,
                             failAt |-> failAt]>>
    /\ UNCHANGED <<parr, pushed>>

\* run / runCore from the return of the action, with the pushed messages in
\* the trace state of the cell: the action has completed or has failed, and
\* the failAt-th write of the flush fails
FlushRunCore ==
    /\ flushOut = <<>>
    /\ \E entry \in {"run", "runCore"}, failed \in BOOLEAN,
          failAt \in 0..(2 * Len(pushed)) :
          LET x_62 == IF failed
                      THEN [tag |-> "error", val |-> Exception_error(Syntax_missing, "m1")]
                      ELSE [tag |-> "ok", val |-> Unit]
              c    == <<mkState(EmptyEnv, NameGenerator_Inhabited, pushed)>>
              r    == IF entry = "run"
                      THEN run_end(x_62, c, mkWorld(<<>>, 0), failAt)
                      ELSE runCore_end(x_62, c, mkWorld(<<>>, 0), failAt)
          IN  flushOut' = <<[op |-> entry, tag |-> r.tag, out |-> r.w.out,
                             failAt |-> failAt, val |-> r.val, failed |-> failed]>>
    /\ UNCHANGED <<parr, pushed>>

(***************************************************************************)
(* Two runs, each with its own reference cell.                             *)
(***************************************************************************)
RunIds == {"r1", "r2"}

\* lean_io_mk_ref: a new cell holding v at the next free address
lean_io_mk_ref(v, h) == [ref |-> Len(h) + 1, heap |-> Append(h, <<v>>)]

\* mutant: every run uses the cell at address 1
run_start_sharedCell(env, opts, h) ==
    [ctx |-> run_context(opts), ref |-> 1, heap |-> <<<<run_state(env)>>>>]

\* run / runCore up to the application of the action
run_start(env, opts, h) ==
    LET x_33 == lean_io_mk_ref(run_state(env), h)
    IN  [ctx |-> run_context(opts), ref |-> x_33.ref, heap |-> x_33.heap]

\* solo is the cell of the same run executed alone; agree tells whether
\* every result so far was the one of the run executed alone
NoRun == [phase |-> "Start", ctx |-> run_context(mkOptions(0)), ref |-> 0,
          solo |-> <<>>, agree |-> TRUE, n |-> 0]

InitRuns ==
    /\ heap = <<>>
    /\ runs = [r \in RunIds |-> NoRun]

RunStart(r) ==
    /\ runs[r].phase = "Start"
    /\ \E env \in InitialEnvs :
          LET x == run_start(env, mkOptions(0), heap)
          IN  /\ heap' = x.heap
              /\ runs' = [runs EXCEPT ![r] =
                            [phase |-> "Running", ctx |-> x.ctx, ref |-> x.ref,
                             solo |-> <<run_state(env)>>, agree |-> TRUE, n |-> 0]]

SameResult(x, s) == x.tag = s.tag /\ x.val = s.val

\* the cell of run r
RunCell(r) == heap[runs[r].ref]

\* run r executes an operation on its cell: x is what the operation returns
\* on the cell of r, s what it returns on the cell of r executed alone
RunDo(r, x, s) ==
    /\ runs[r].phase = "Running"
    /\ runs[r].n < MaxRunOps
    /\ heap' = [heap EXCEPT ![runs[r].ref] = x.cell]
    /\ runs' = [runs EXCEPT ![r].solo = s.cell,
                            ![r].agree = @ /\ SameResult(x, s),
                            ![r].n = @ + 1]

RunSetEnv(r) ==
    /\ runs[r].phase = "Running"
    /\ \E e \in SetEnvArgs :
          RunDo(r, setEnv(e, runs[r].ctx, RunCell(r)),
                   setEnv(e, runs[r].ctx, runs[r].solo))

RunModifyEnv(r) ==
    /\ runs[r].phase = "Running"
    /\ \E f \in EnvFns :
          RunDo(r, modifyEnv(f, runs[r].ctx, RunCell(r)),
                   modifyEnv(f, runs[r].ctx, runs[r].solo))

RunMkFreshId(r) ==
    /\ runs[r].phase = "Running"
    /\ RunDo(r, mkFreshId(RunCell(r)), mkFreshId(runs[r].solo))

RunAddDecl(r) ==
    /\ runs[r].phase = "Running"
    /\ \E d \in Decls :
          RunDo(r, addDecl(d, runs[r].ctx, RunCell(r)),
                   addDecl(d, runs[r].ctx, runs[r].solo))

RunCompileDecl(r) ==
    /\ runs[r].phase = "Running"
    /\ \E d \in Decls :
          RunDo(r, compileDecl(d, runs[r].ctx, RunCell(r)),
                   compileDecl(d, runs[r].ctx, runs[r].solo))

RunModifyTraceState(r) ==
    /\ runs[r].phase = "Running"
    /\ \E m \in Messages :
          RunDo(r, tracer_lambda_1(m, runs[r].ctx, RunCell(r)),
                   tracer_lambda_1(m, runs[r].ctx, runs[r].solo))

\* the action of run r returns its value; the traces are printed and the
\* result is returned
RunFinish(r) ==
    /\ runs[r].phase = "Running"
    /\ LET x_62 == [tag |-> "ok", val |-> Unit]
           x    == run_end(x_62, heap[runs[r].ref], mkWorld(<<>>, 0), 0)
           s    == run_end(x_62, runs[r].solo, mkWorld(<<>>, 0), 0)
       IN  runs' = [runs EXCEPT ![r].phase = "Done",
                                ![r].agree = @ /\ SameResult(x, s) /\ x.w = s.w]
    /\ UNCHANGED heap

(***************************************************************************)
(* Scoped trace environment (src/library/trace.cpp).                       *)
(***************************************************************************)
Threads == {"t1"}

nullptr == 0

EnvPtrs == {1, 2}    \* addresses of environment objects
CtxPtrs == {1}       \* addresses of type-context objects
OptPtrs == {1, 2, 3, 4} \* addresses of options objects

name1(a) == mk_string(Anonymous, a)

name2(a, b) == mk_string(name1(a), b)

name3(a, b, c) == mk_string(name2(a, b), c)

mkEntry(k, v) == [key |-> k, kind |-> "Bool", val |-> v]

\* the options object at each address: its entries in iteration order
OptTable ==
    << <<mkEntry(name2("trace", "A"), TRUE)>>,
       <<mkEntry(name3("trace", "A", "B"), TRUE),
         mkEntry(name2("trace", "C"), FALSE),
         mkEntry(name2("pp", "all"), TRUE)>>,
       <<mkEntry(name2("trace", "A"), TRUE),
         mkEntry(name2("trace", "C"), TRUE)>>,
       <<mkEntry(name2("trace", "D"), TRUE)>> >>

RECURSIVE options_get_bool(_, _, _)
options_get_bool(o, n, default) ==
    IF o = <<>> THEN default
    ELSE IF Head(o).key = n
         THEN (IF Head(o).kind = "Bool" THEN Head(o).val ELSE default)
         ELSE options_get_bool(Tail(o), n, default)

Range(f) == {f[i] : i \in DOMAIN f}

\* mutant: the class is compared with the last entry of the list only
update_class_lastOnly(cs, c) ==
    IF cs # <<>> /\ cs[Len(cs)] = c THEN cs ELSE Append(cs, c)

\* mutant: the class is appended even when the list has it
update_class_always(cs, c) == Append(cs, c)

update_class(cs, c) == IF c \in Range(cs) THEN cs ELSE Append(cs, c)

\* std::vector::resize: truncates, or pads with default-constructed names
vector_resize(v, n) ==
    IF n <= Len(v) THEN SubSeq(v, 1, n)
    ELSE v \o [i \in 1..(n - Len(v)) |-> Anonymous]

\* the body of the for_each in init, folded over the entries left in rest;
\* ls is the pair of lists [en, dis]
RECURSIVE init_for_each(_, _, _)
init_for_each(rest, o, ls) ==
    IF rest = <<>> THEN ls
    ELSE LET n     == Head(rest).key
             trace == name1("trace")
             cls   == replace_prefix(n, trace, Anonymous)
             ls1   == IF is_prefix_of(trace, n)
                      THEN (IF options_get_bool(o, n, FALSE)
                            THEN [ls EXCEPT !.en = update_class(@, cls)]
                            ELSE [ls EXCEPT !.dis = update_class(@, cls)])
                      ELSE ls
         IN  init_for_each(Tail(rest), o, ls1)

\* the thread-local trace state of one thread
mkTls(en, dis, env, opts, ctx) ==
    [en |-> en, dis |-> dis, g_env |-> env, g_opts |-> opts, g_ctx |-> ctx]

\* mutant: the list sizes are recorded after the options are interpreted
scope_trace_env_init_lateSizes(env, opts, ctx, tls) ==
    LET ls  == IF opts # nullptr /\ tls.g_opts # opts
               THEN init_for_each(OptTable[opts], OptTable[opts],
                                  [en |-> tls.en, dis |-> tls.dis])
               ELSE [en |-> tls.en, dis |-> tls.dis]
        obj == [m_enable_sz  |-> Len(ls.en),
                m_disable_sz |-> Len(ls.dis),
                m_old_env    |-> tls.g_env,
                m_old_opts   |-> tls.g_opts,
                m_old_ctx    |-> tls.g_ctx]
    IN  [obj |-> obj, tls |-> mkTls(ls.en, ls.dis, env, opts, ctx)]

\* mutant: each size member records the size of the other list
scope_trace_env_init_swappedSizes(env, opts, ctx, tls) ==
    LET obj == [m_enable_sz  |-> Len(tls.dis),
                m_disable_sz |-> Len(tls.en),
                m_old_env    |-> tls.g_env,
                m_old_opts   |-> tls.g_opts,
                m_old_ctx    |-> tls.g_ctx]
        ls  == IF opts # nullptr /\ tls.g_opts # opts
               THEN init_for_each(OptTable[opts], OptTable[opts],
                                  [en |-> tls.en, dis |-> tls.dis])
               ELSE [en |-> tls.en, dis |-> tls.dis]
    IN  [obj |-> obj, tls |-> mkTls(ls.en, ls.dis, env, opts, ctx)]

\* scope_trace_env::init on thread state tls: the members of the new scope
\* object and the thread state after it
scope_trace_env_init(env, opts, ctx, tls) ==
    LET obj == [m_enable_sz  |-> Len(tls.en),
                m_disable_sz |-> Len(tls.dis),
                m_old_env    |-> tls.g_env,
                m_old_opts   |-> tls.g_opts,
                m_old_ctx    |-> tls.g_ctx]
        ls  == IF opts # nullptr /\ tls.g_opts # opts
               THEN init_for_each(OptTable[opts], OptTable[opts],
                                  [en |-> tls.en, dis |-> tls.dis])
               ELSE [en |-> tls.en, dis |-> tls.dis]
    IN  [obj |-> obj, tls |-> mkTls(ls.en, ls.dis, env, opts, ctx)]

\* the three constructors
scope_trace_env_1(env, o, ctx, tls) == scope_trace_env_init(env, o, ctx, tls)

scope_trace_env_2(env, ctx, tls) == scope_trace_env_init(env, tls.g_opts, ctx, tls)

scope_trace_env_3(o, tls) == scope_trace_env_init(tls.g_env, o, tls.g_ctx, tls)

\* mutant: the destructor does not restore the options pointer
scope_trace_env_dtor_keepOpts(obj, tls) ==
    mkTls(vector_resize(tls.en, obj.m_enable_sz),
          vector_resize(tls.dis, obj.m_disable_sz),
          obj.m_old_env, tls.g_opts, obj.m_old_ctx)

\* scope_trace_env::~scope_trace_env
scope_trace_env_dtor(obj, tls) ==
    mkTls(vector_resize(tls.en, obj.m_enable_sz),
          vector_resize(tls.dis, obj.m_disable_sz),
          obj.m_old_env, obj.m_old_opts, obj.m_old_ctx)

Tls(t) == mkTls(enabled[t], disabled[t], g_env[t], g_opts[t], g_ctx[t])

NoScope == [op |-> "none", ctor |-> 0, how |-> "none",
            entry |-> mkTls(<<>>, <<>>, nullptr, nullptr, nullptr),
            pre |-> mkTls(<<>>, <<>>, nullptr, nullptr, nullptr)]

\* name_map::find: <<value>> when the key is present, <<>> otherwise
name_map_find(m, k) == IF k \in DOMAIN m THEN <<m[k]>> ELSE <<>>

name_map_insert(m, k, v) ==
    [x \in (DOMAIN m) \cup {k} |-> IF x = k THEN v ELSE m[x]]

\* register_trace_class on the set of classes
register_trace_class(classes, n) == classes \cup {n}

\* mutant: the alias set of the class is replaced by the new alias
register_trace_class_alias_replace(aliases, n, alias) ==
    name_map_insert(aliases, n, {alias})

\* register_trace_class_alias on the alias map
register_trace_class_alias(aliases, n, alias) ==
    LET s     == name_map_find(aliases, n)
        new_s == IF s # <<>> THEN s[1] ELSE {}
    IN  name_map_insert(aliases, n, new_s \cup {alias})

is_trace_enabled(tls) == tls.en # <<>>

\* mutant: an entry matches only the class equal to it
is_trace_class_set_core_exact(cs, n) ==
    \E i \in 1..Len(cs) : cs[i] = n

is_trace_class_set_core(cs, n) ==
    \E i \in 1..Len(cs) : is_prefix_of(cs[i], n)

\* mutant: the aliases registered for an alias are followed too
RECURSIVE is_trace_class_set_loop_transitive(_, _, _)
is_trace_class_set_loop_transitive(cs, it, aliases) ==
    LET s     == name_map_find(aliases, it)
        found == s # <<>> /\ \E alias \in s[1] :
                    \/ is_trace_class_set_core(cs, alias)
                    \/ is_trace_class_set_loop_transitive(cs, alias, aliases)
    IN  IF found THEN TRUE
        ELSE IF is_atomic(it) THEN FALSE
        ELSE is_trace_class_set_loop_transitive(cs, get_prefix(it), aliases)

\* the while loop of is_trace_class_set, entered with it
RECURSIVE is_trace_class_set_loop(_, _, _)
is_trace_class_set_loop(cs, it, aliases) ==
    LET s     == name_map_find(aliases, it)
        found == s # <<>> /\ \E alias \in s[1] : is_trace_class_set_core(cs, alias)
    IN  IF found THEN TRUE
        ELSE IF is_atomic(it) THEN FALSE
        ELSE is_trace_class_set_loop(cs, get_prefix(it), aliases)

\* mutant: only the aliases of n itself are looked up
is_trace_class_set_noWalk(cs, n, aliases) ==
    IF is_trace_class_set_core(cs, n) THEN TRUE
    ELSE LET s == name_map_find(aliases, n)
         IN  s # <<>> /\ \E alias \in s[1] : is_trace_class_set_core(cs, alias)

is_trace_class_set(cs, n, aliases) ==
    IF is_trace_class_set_core(cs, n) THEN TRUE
    ELSE is_trace_class_set_loop(cs, n, aliases)

\* mutant: the enabled list is consulted before the disabled list
is_trace_class_enabled_enabledFirst(n, tls, aliases) ==
    IF ~is_trace_enabled(tls) THEN FALSE
    ELSE IF is_trace_class_set(tls.en, n, aliases) THEN TRUE
    ELSE FALSE

is_trace_class_enabled(n, tls, aliases) ==
    IF ~is_trace_enabled(tls) THEN FALSE
    ELSE IF is_trace_class_set(tls.dis, n, aliases) THEN FALSE
    ELSE is_trace_class_set(tls.en, n, aliases)

\* arguments of the registration calls
ClassArgs == {name2("A", "B")}

AliasArgs == {<<name2("A", "B"), name1("D")>>,
              <<name1("A"), name1("C")>>,
              <<name1("D"), name1("C")>>}

\* arguments of the registration calls in RegSpec
RegClassArgs == {name1("A"), name2("A", "B"), name1("C")}

RegAliasArgs == {<<name2("A", "B"), name1("D")>>,
                 <<name2("A", "B"), name1("C")>>,
                 <<name1("A"), name1("C")>>,
                 <<name1("A"), name1("D")>>,
                 <<name1("D"), name1("C")>>}

\* initialize_trace: empty registry, then register_trace_class("debug")
InitRegistry ==
    /\ g_trace_classes = register_trace_class({}, name1("debug"))
    /\ g_trace_aliases = <<>>
    /\ regHist = [classes |-> {name1("debug")}, pairs |-> {}]

\* register_trace_class called with a class of args
RegisterClassFrom(args) ==
    /\ \E n \in args :
          /\ g_trace_classes' = register_trace_class(g_trace_classes, n)
          /\ regHist' = [regHist EXCEPT !.classes = @ \cup {n}]
    /\ UNCHANGED g_trace_aliases

\* register_trace_class_alias called with a (class, alias) pair of args
RegisterAliasFrom(args) ==
    /\ \E p \in args :
          /\ g_trace_aliases' = register_trace_class_alias(g_trace_aliases, p[1], p[2])
          /\ regHist' = [regHist EXCEPT !.pairs = @ \cup {p}]
    /\ UNCHANGED g_trace_classes

RegisterClass == RegisterClassFrom(ClassArgs)

RegisterAlias == RegisterAliasFrom(AliasArgs)

RegRegisterClass == RegisterClassFrom(RegClassArgs)

RegRegisterAlias == RegisterAliasFrom(RegAliasArgs)

\* every thread of ths starts with empty lists and nothing bound
InitTraceOn(ths) ==
    /\ enabled = [t \in ths |-> <<>>]
    /\ disabled = [t \in ths |-> <<>>]
    /\ g_env = [t \in ths |-> nullptr]
    /\ g_opts = [t \in ths |-> nullptr]
    /\ g_ctx = [t \in ths |-> nullptr]
    /\ scopes = [t \in ths |-> <<>>]
    /\ lastScope = [t \in ths |-> NoScope]

InitTrace == InitTraceOn(Threads)

\* mutant: the lists and the bound pointers are plain globals, one copy for
\* all threads
SetTls_shared(t, tls) ==
    /\ enabled' = [u \in DOMAIN enabled |-> tls.en]
    /\ disabled' = [u \in DOMAIN disabled |-> tls.dis]
    /\ g_env' = [u \in DOMAIN g_env |-> tls.g_env]
    /\ g_opts' = [u \in DOMAIN g_opts |-> tls.g_opts]
    /\ g_ctx' = [u \in DOMAIN g_ctx |-> tls.g_ctx]

SetTls(t, tls) ==
    /\ enabled' = [enabled EXCEPT ![t] = tls.en]
    /\ disabled' = [disabled EXCEPT ![t] = tls.dis]
    /\ g_env' = [g_env EXCEPT ![t] = tls.g_env]
    /\ g_opts' = [g_opts EXCEPT ![t] = tls.g_opts]
    /\ g_ctx' = [g_ctx EXCEPT ![t] = tls.g_ctx]

\* thread t constructs a scope object r.obj; entry remembers the thread
\* state the scope was entered in
Enter(t, ctor, r) ==
    /\ Len(scopes[t]) < MaxScopes
    /\ SetTls(t, r.tls)
    /\ scopes' = [scopes EXCEPT ![t] = Append(@, [obj |-> r.obj, ctor |-> ctor, entry |-> Tls(t)])]
    /\ lastScope' = [lastScope EXCEPT ![t] =
                        [op |-> "enter", ctor |-> ctor, how |-> "none",
                         entry |-> Tls(t), pre |-> Tls(t)]]

EnterScope1(t) ==
    \E env \in EnvPtrs, o \in OptPtrs, ctx \in CtxPtrs :
        Enter(t, 1, scope_trace_env_1(env, o, ctx, Tls(t)))

EnterScope2(t) ==
    \E env \in EnvPtrs, ctx \in CtxPtrs :
        Enter(t, 2, scope_trace_env_2(env, ctx, Tls(t)))

EnterScope3(t) ==
    \E o \in OptPtrs : Enter(t, 3, scope_trace_env_3(o, Tls(t)))

\* the threads and the constructor arguments of ThreadSpec
AllThreads == {"t1", "t2"}

ThreadEnvPtrs == {1}

ThreadOptPtrs == {1, 2}

ThreadEnterScope(t) ==
    \E env \in ThreadEnvPtrs, o \in ThreadOptPtrs, ctx \in CtxPtrs :
        Enter(t, 1, scope_trace_env_1(env, o, ctx, Tls(t)))

\* the innermost scope of thread t ends, by a normal return or while an
\* exception unwinds the stack: the destructor runs in both cases
ExitScope(t) ==
    /\ scopes[t] # <<>>
    /\ \E how \in {"return", "unwind"} :
         LET sc == scopes[t][Len(scopes[t])]
         IN  /\ SetTls(t, scope_trace_env_dtor(sc.obj, Tls(t)))
             /\ scopes' = [scopes EXCEPT ![t] = SubSeq(@, 1, Len(@) - 1)]
             /\ lastScope' = [lastScope EXCEPT ![t] =
                                 [op |-> "exit", ctor |-> sc.ctor, how |-> how,
                                  entry |-> sc.entry, pre |-> Tls(t)]]

(***************************************************************************)
(* set_option (stage0/stdlib/Lean/Elab/SetOption.c).                       *)
(***************************************************************************)
mkDataValue(kind, v) == [kind |-> kind, v |-> v]

DataValue_sameCtor(a, b) == a.kind = b.kind

DataValues == {mkDataValue("Bool", "true"), mkDataValue("Bool", "false"),
               mkDataValue("Nat", "1")}

\* the option declarations: name -> declaration with its default value
OptionDecls ==
    [n \in {name1("maxRecDepth"), name2("trace", "A")} |->
        IF n = name1("maxRecDepth")
        THEN [defValue |-> mkDataValue("Nat", "512")]
        ELSE [defValue |-> mkDataValue("Bool", "false")]]

\* the option names given to set_option; pp.all is not declared
OptionNames == {name1("maxRecDepth"), name2("trace", "A"), name2("pp", "all")}

\* getOptionDecl: the declaration, or the IO error for an unknown option
getOptionDecl(name) ==
    IF name \in DOMAIN OptionDecls
    THEN [tag |-> "ok", val |-> OptionDecls[name]]
    ELSE [tag |-> "error", val |-> IO_userError(<<"unknown option", name>>)]

\* KVMap.insertCore: the value of the entry with key k is replaced; when
\* there is none, the entry is added at the end
RECURSIVE KVMap_insertCore(_, _, _)
KVMap_insertCore(m, k, v) ==
    IF m = <<>> THEN <<[key |-> k, val |-> v]>>
    ELSE IF Head(m).key = k THEN <<[key |-> k, val |-> v]>> \o Tail(m)
    ELSE <<Head(m)>> \o KVMap_insertCore(Tail(m), k, v)

typeMismatchMessage == "type mismatch at set_option"

\* mutant: the kind of the value is not compared with the declared one
setOption_noKindCheck(optionName, val, ref, opts) ==
    LET x_14 == getOptionDecl(optionName)
    IN  IF x_14.tag = "error"
        THEN [tag |-> "error",
              val |-> Exception_error(ref, MessageData_ofFormat(Format_text(
                          lean_io_error_to_string(x_14.val))))]
        ELSE [tag |-> "ok", val |-> KVMap_insertCore(opts, optionName, val)]

\* elabSetOption.setOption in a context whose reference is ref and whose
\* options are opts: lambda_5 (the declaration is looked up, an IO error
\* becomes an exception at ref), lambda_4 (the kinds are compared), lambda_2
\* (the value is inserted in the options)
setOption(optionName, val, ref, opts) ==
    LET x_14 == getOptionDecl(optionName)
    IN  IF x_14.tag = "error"
        THEN [tag |-> "error",
              val |-> Exception_error(ref, MessageData_ofFormat(Format_text(
                          lean_io_error_to_string(x_14.val))))]
        ELSE IF ~DataValue_sameCtor(x_14.val.defValue, val)
        THEN [tag |-> "error", val |-> Exception_error(ref, typeMismatchMessage)]
        ELSE [tag |-> "ok", val |-> KVMap_insertCore(opts, optionName, val)]

\* the options with at most k entries, built by insertions
RECURSIVE KVMapsUpTo(_)
KVMapsUpTo(k) ==
    IF k = 0 THEN {<<>>}
    ELSE LET P == KVMapsUpTo(k - 1)
         IN  P \cup {KVMap_insertCore(m, n, v) : m \in P, n \in OptionNames, v \in DataValues}

NoSetOpt == [op |-> "none", name |-> Anonymous, val |-> mkDataValue("Bool", "false"),
             ref |-> Syntax_missing, tag |-> "ok", res |-> <<>>]

InitSetOpt ==
    /\ setOptIn = <<>>
    /\ setOptOut = NoSetOpt

\* set_option name val is elaborated in a context with the options setOptIn
SetOptionCall ==
    /\ \E n \in OptionNames, v \in DataValues, ref \in Refs :
          LET r == setOption(n, v, ref, setOptIn)
          IN  setOptOut' = [op |-> "setOption", name |-> n, val |-> v, ref |-> ref,
                            tag |-> r.tag, res |-> <<r.val>>]
    /\ UNCHANGED setOptIn

(***************************************************************************)
(* Specifications                                                          *)
(***************************************************************************)
outsideCore == <<traceVars, regVars, runsVars, nameVars, exnVars, flushVars, setOptVars>>

outsideAction == <<traceVars, regVars, ioVars, runsVars, nameVars, exnVars, flushVars, setOptVars>>

outsideScopes == <<coreVars, regVars, ioVars, runsVars, nameVars, exnVars, flushVars, setOptVars>>

outsideRegistry == <<coreVars, traceVars, ioVars, runsVars, nameVars, exnVars, flushVars, setOptVars>>

outsideRuns == <<coreVars, traceVars, regVars, ioVars, nameVars, exnVars, flushVars, setOptVars>>

outsideNames == <<coreVars, traceVars, regVars, ioVars, runsVars, exnVars, flushVars, setOptVars>>

outsideExn == <<coreVars, traceVars, regVars, ioVars, runsVars, nameVars, flushVars, setOptVars>>

outsideSetOpt == <<coreVars, traceVars, regVars, ioVars, runsVars, nameVars, exnVars,
                   flushVars>>

outsideFlush == <<coreVars, traceVars, regVars, ioVars, runsVars, nameVars, exnVars, setOptVars>>

Init ==
    InitCore /\ InitIO /\ InitTrace /\ InitRegistry /\ InitRuns /\ InitNames /\ InitExn
    /\ InitFlush
    /\ InitSetOpt

Next ==
    \/ (Run /\ UNCHANGED outsideAction)
    \/ (GetEnv /\ UNCHANGED outsideAction)
    \/ (SetEnv /\ UNCHANGED outsideAction)
    \/ (ModifyEnv /\ UNCHANGED outsideAction)
    \/ (GetOptions /\ UNCHANGED outsideAction)
    \/ (GetTraceState /\ UNCHANGED outsideAction)
    \/ (MkFreshId /\ UNCHANGED outsideAction)
    \/ (ModifyTraceState /\ UNCHANGED outsideAction)
    \/ (AddDecl /\ UNCHANGED outsideAction)
    \/ (CompileDecl /\ UNCHANGED outsideAction)
    \/ (AddAndCompile /\ UNCHANGED outsideAction)
    \/ (GetConstInfo /\ UNCHANGED outsideAction)
    \/ (ThrowError /\ UNCHANGED outsideAction)
    \/ (CheckRecDepth /\ UNCHANGED outsideAction)
    \/ (WithIncRecDepth /\ UNCHANGED outsideAction)
    \/ (WithRef /\ UNCHANGED outsideAction)
    \/ (Return /\ UNCHANGED outsideAction)
    \/ (Recover /\ UNCHANGED outsideAction)
    \/ (Finish /\ UNCHANGED outsideCore)

Spec == Init /\ [][Next]_vars

TraceInit ==
    /\ InitCore
    /\ options = mkOptions(0)
    /\ initialEnv = EmptyEnv
    /\ InitIO
    /\ InitTrace
    /\ InitRegistry
    /\ InitRuns
    /\ InitNames
    /\ InitExn
    /\ InitFlush
    /\ InitSetOpt

TraceNext ==
    \/ \E t \in Threads : EnterScope1(t) /\ UNCHANGED outsideScopes
    \/ \E t \in Threads : EnterScope2(t) /\ UNCHANGED outsideScopes
    \/ \E t \in Threads : EnterScope3(t) /\ UNCHANGED outsideScopes
    \/ \E t \in Threads : ExitScope(t) /\ UNCHANGED outsideScopes
    \/ (RegisterClass /\ UNCHANGED outsideRegistry)
    \/ (RegisterAlias /\ UNCHANGED outsideRegistry)

TraceSpec == TraceInit /\ [][TraceNext]_vars

RunsInit ==
    /\ InitCore
    /\ options = mkOptions(0)
    /\ initialEnv = EmptyEnv
    /\ InitIO
    /\ InitTrace
    /\ InitRegistry
    /\ InitRuns
    /\ InitNames
    /\ InitExn
    /\ InitFlush
    /\ InitSetOpt

RunsNext ==
    \/ \E r \in RunIds : RunStart(r) /\ UNCHANGED outsideRuns
    \/ \E r \in RunIds : RunSetEnv(r) /\ UNCHANGED outsideRuns
    \/ \E r \in RunIds : RunModifyEnv(r) /\ UNCHANGED outsideRuns
    \/ \E r \in RunIds : RunMkFreshId(r) /\ UNCHANGED outsideRuns
    \/ \E r \in RunIds : RunAddDecl(r) /\ UNCHANGED outsideRuns
    \/ \E r \in RunIds : RunCompileDecl(r) /\ UNCHANGED outsideRuns
    \/ \E r \in RunIds : RunModifyTraceState(r) /\ UNCHANGED outsideRuns
    \/ \E r \in RunIds : RunFinish(r) /\ UNCHANGED outsideRuns

RunsSpec == RunsInit /\ [][RunsNext]_vars

NameInit ==
    /\ InitCore
    /\ options = mkOptions(0)
    /\ initialEnv = EmptyEnv
    /\ InitIO
    /\ InitTrace
    /\ InitRegistry
    /\ InitRuns
    /\ nameIn \in NameInputs
    /\ nameOut = [op |-> "none"]
    /\ InitExn
    /\ InitFlush
    /\ InitSetOpt

NameNext ==
    \/ (NameMk /\ UNCHANGED outsideNames)
    \/ (NameJoin /\ UNCHANGED outsideNames)
    \/ (NameCompare /\ UNCHANGED outsideNames)
    \/ (NameReplacePrefix /\ UNCHANGED outsideNames)

NameSpec == NameInit /\ [][NameNext]_vars

ExnInit ==
    /\ InitCore
    /\ options = mkOptions(0)
    /\ initialEnv = EmptyEnv
    /\ InitIO
    /\ InitTrace
    /\ InitRegistry
    /\ InitRuns
    /\ InitNames
    /\ exnIn \in Exceptions
    /\ exnOut = [op |-> "none"]
    /\ InitFlush
    /\ InitSetOpt

ExnNext ==
    \/ (ExnToMessageData /\ UNCHANGED outsideExn)
    \/ (ExnHasToString /\ UNCHANGED outsideExn)
    \/ (ExnToIOError /\ UNCHANGED outsideExn)

ExnSpec == ExnInit /\ [][ExnNext]_vars

FlushInit ==
    /\ InitCore
    /\ options = mkOptions(0)
    /\ initialEnv = EmptyEnv
    /\ InitIO
    /\ InitTrace
    /\ InitRegistry
    /\ InitRuns
    /\ InitNames
    /\ InitExn
    /\ InitFlush
    /\ InitSetOpt

FlushNext ==
    \/ (Push /\ UNCHANGED outsideFlush)
    \/ (Flush /\ UNCHANGED outsideFlush)
    \/ (FlushRunCore /\ UNCHANGED outsideFlush)

FlushSpec == FlushInit /\ [][FlushNext]_vars

RegInit ==
    /\ InitCore
    /\ options = mkOptions(0)
    /\ initialEnv = EmptyEnv
    /\ InitIO
    /\ InitTrace
    /\ InitRegistry
    /\ InitRuns
    /\ InitNames
    /\ InitExn
    /\ InitFlush
    /\ InitSetOpt

RegNext ==
    \/ (RegRegisterClass /\ UNCHANGED outsideRegistry)
    \/ (RegRegisterAlias /\ UNCHANGED outsideRegistry)

RegSpec == RegInit /\ [][RegNext]_vars

ThreadInit ==
    /\ InitCore
    /\ options = mkOptions(0)
    /\ initialEnv = EmptyEnv
    /\ InitIO
    /\ InitTraceOn(AllThreads)
    /\ InitRegistry
    /\ InitRuns
    /\ InitNames
    /\ InitExn
    /\ InitFlush
    /\ InitSetOpt

ThreadNext ==
    \/ \E t \in AllThreads : ThreadEnterScope(t) /\ UNCHANGED outsideScopes
    \/ \E t \in AllThreads : ExitScope(t) /\ UNCHANGED outsideScopes

ThreadSpec == ThreadInit /\ [][ThreadNext]_vars

SetOptInit ==
    /\ InitCore
    /\ options = mkOptions(0)
    /\ initialEnv = EmptyEnv
    /\ InitIO
    /\ InitTrace
    /\ InitRegistry
    /\ InitRuns
    /\ InitNames
    /\ InitExn
    /\ InitFlush
    /\ setOptIn \in KVMapsUpTo(MaxOptEntries)
    /\ setOptOut = NoSetOpt

SetOptNext == SetOptionCall /\ UNCHANGED outsideSetOpt

SetOptSpec == SetOptInit /\ [][SetOptNext]_vars

(***************************************************************************)
(* Properties of one run (Spec)                                            *)
(***************************************************************************)
PreEnv == last.pre[1].env

CurEnv == cell[1].env

KernelAnswer == lean_add_decl(PreEnv, last.arg)

\* C1: in a run started at depth 0 with maxRecDepth N, a withIncRecDepth
\* entered under k < N pending withIncRecDepth bodies runs its body, one
\* level deeper; entered under N of them it returns the max-recursion-depth
\* error without running its body and without touching the state; and when
\* a body returns, the state it leaves is the state its caller goes on with.
RecursionFence ==
    /\ (last.op = "withIncRecDepth" =>
          /\ last.nest <= getMaxRecDepth(options)
          /\ IF last.nest < getMaxRecDepth(options)
             THEN /\ last.tag = "ok"
                  /\ last.applied
                  /\ Top.kind = "withIncRecDepth"
                  /\ NestCount(stack) = last.nest + 1
             ELSE /\ last.tag = "error"
                  /\ last.val = Exception_error(last.ctx.ref, maxRecDepthErrorMessage)
                  /\ pending = <<last.val>>
                  /\ ~last.applied
                  /\ NestCount(stack) = last.nest
                  /\ cell = last.pre)
    /\ (last.op = "return" => cell = last.pre)

\* C1 witness: with maxRecDepth 2, the third nested withIncRecDepth has just
\* failed, after the environment was changed inside the two bodies
RecursionFenceWitness ==
    /\ getMaxRecDepth(options) = 2
    /\ last.op = "withIncRecDepth"
    /\ last.tag = "error"
    /\ last.nest = 2
    /\ CurEnv # initialEnv

\* C2: when the kernel accepts the declaration and the compiler backend
\* fails, addAndCompile returns the compiler's exception and the environment
\* in the state is the one the kernel produced, with the declaration in it.
AddAndCompileKeepsAddDecl ==
    (/\ last.op = "addAndCompile"
     /\ KernelAnswer.tag = "ok"
     /\ lean_compile_decl(KernelAnswer.val, last.ctx.options, last.arg).tag = "error")
    => /\ last.tag = "error"
       /\ last.val = Exception_kernel(
              lean_compile_decl(KernelAnswer.val, last.ctx.options, last.arg).val,
              last.ctx.options)
       /\ getEnv(cell).val = KernelAnswer.val
       /\ last.arg \in CurEnv.decls

\* C2 witness: addAndCompile of d2, which the kernel accepts and the
\* backend cannot compile, has just failed
AddAndCompileKeepsAddDeclWitness ==
    /\ last.op = "addAndCompile"
    /\ last.arg = "d2"
    /\ last.tag = "error"
    /\ "d2" \notin PreEnv.decls
    /\ "d2" \in CurEnv.decls

\* C3: when the kernel rejects the declaration, addDecl returns the kernel
\* exception as an Exception and the state (environment, name generator,
\* trace log) is the state before the call.
AddDeclFailureUntouched ==
    (last.op = "addDecl" /\ KernelAnswer.tag = "error")
    => /\ last.tag = "error"
       /\ last.val.tag = "kernel"
       /\ last.val.ex = KernelAnswer.val
       /\ pending = <<last.val>>
       /\ cell = last.pre

\* C3 witness: addDecl of an ill-typed declaration has just failed in a
\* state whose generator and trace log are not the initial ones
AddDeclFailureUntouchedWitness ==
    /\ last.op = "addDecl"
    /\ last.arg = "bad"
    /\ last.tag = "error"
    /\ cell[1].ngen.idx > 1
    /\ cell[1].traceState # <<>>

AddDeclCommits ==
    (last.op = "addDecl" /\ KernelAnswer.tag = "ok")
    => /\ last.tag = "ok"
       /\ pending = <<>>
       /\ getEnv(cell).val = KernelAnswer.val

\* C4 witness: addDecl of d2 has just succeeded
AddDeclCommitsWitness ==
    /\ last.op = "addDecl"
    /\ last.arg = "d2"
    /\ last.tag = "ok"
    /\ CurEnv # PreEnv
    /\ "d2" \in CurEnv.decls

\* C5: when addDecl fails inside addAndCompile, the compiler backend is not
\* called, addAndCompile returns the failure of addDecl and the environment
\* is the one before the call.
AddAndCompileStopsOnAddDeclFailure ==
    (last.op = "addAndCompile" /\ KernelAnswer.tag = "error")
    => /\ \A i \in 1..Len(last.calls) : last.calls[i].who # "compiler"
       /\ last.tag = "error"
       /\ last.val = Exception_kernel(KernelAnswer.val, last.ctx.options)
       /\ CurEnv = PreEnv

\* C5 witness: addAndCompile of a declaration that is already in the
\* environment has just failed
AddAndCompileStopsOnAddDeclFailureWitness ==
    /\ last.op = "addAndCompile"
    /\ last.arg = "d1"
    /\ "d1" \in PreEnv.decls
    /\ last.tag = "error"

\* C6: compileDecl installs the environment the backend returned when the
\* backend succeeds; when it fails, compileDecl returns the backend's
\* exception and the environment is the one before the call.
CompileDeclContract ==
    last.op = "compileDecl" =>
        LET x_11 == lean_compile_decl(PreEnv, last.ctx.options, last.arg)
        IN  IF x_11.tag = "ok"
            THEN /\ last.tag = "ok"
                 /\ getEnv(cell).val = x_11.val
            ELSE /\ last.tag = "error"
                 /\ last.val = Exception_kernel(x_11.val, last.ctx.options)
                 /\ CurEnv = PreEnv

\* C6 witness: compileDecl of d1 has just succeeded and changed the
\* environment
CompileDeclContractWitness ==
    /\ last.op = "compileDecl"
    /\ last.arg = "d1"
    /\ last.tag = "ok"
    /\ "d1" \in CurEnv.compiled
    /\ "d1" \notin PreEnv.compiled

\* C7: the identifiers returned by the mkFreshId calls of one run are
\* pairwise distinct, whatever else the run did between the calls.
FreshIdsDistinct ==
    \A i, j \in 1..Len(freshIds) : i # j => freshIds[i] # freshIds[j]

\* C7 witness: two identifiers drawn, the second one inside a
\* withIncRecDepth body and after the environment was changed
FreshIdsDistinctWitness ==
    /\ Len(freshIds) >= 2
    /\ last.op = "mkFreshId"
    /\ NestCount(stack) > 0
    /\ CurEnv # initialEnv

\* C8: mkFreshId returns Numeral(prefix, next) for the generator
\* (prefix, next) of the state before the call, and the generator after the
\* call is (prefix, next + 1).
MkFreshIdContract ==
    last.op = "mkFreshId" =>
        /\ last.tag = "ok"
        /\ last.val = [kind |-> "NUMERAL",
                       prefix |-> last.pre[1].ngen.namePrefix,
                       num |-> last.pre[1].ngen.idx]
        /\ cell[1].ngen.namePrefix = last.pre[1].ngen.namePrefix
        /\ cell[1].ngen.idx = last.pre[1].ngen.idx + 1

\* C8 witness: the second mkFreshId of a run
MkFreshIdContractWitness ==
    /\ last.op = "mkFreshId"
    /\ last.pre[1].ngen.idx = 2
    /\ Len(freshIds) = 2

(***************************************************************************)
(* Properties of the trace scopes (TraceSpec)                              *)
(***************************************************************************)
\* C9: when a trace scope exits, by return or by unwinding, the enabled
\* list and the disabled list are element for element the lists of the
\* moment the scope was entered.
ScopeExitRestoresLists ==
    \A t \in Threads :
        lastScope[t].op = "exit" =>
            /\ enabled[t] = lastScope[t].entry.en
            /\ disabled[t] = lastScope[t].entry.dis

\* C9 witness: with enabled list [A], a nested scope that added A.B (and
\* disabled C) has just been unwound, the outer scope being still open
ScopeExitRestoresListsWitness ==
    \E t \in Threads :
        /\ lastScope[t].op = "exit"
        /\ lastScope[t].how = "unwind"
        /\ lastScope[t].entry.en = <<name1("A")>>
        /\ lastScope[t].pre.en = <<name1("A"), name2("A", "B")>>
        /\ lastScope[t].pre.dis # lastScope[t].entry.dis
        /\ Len(scopes[t]) = 1

\* C10: when a trace scope exits, the bound environment, options and type
\* context are the ones bound when the scope was entered, whichever
\* constructor entered it.
ScopeExitRestoresBinding ==
    \A t \in Threads :
        lastScope[t].op = "exit" =>
            /\ g_env[t] = lastScope[t].entry.g_env
            /\ g_opts[t] = lastScope[t].entry.g_opts
            /\ g_ctx[t] = lastScope[t].entry.g_ctx

\* C10 witness: a scope entered with options only, inside a scope that
\* bound an environment, options and a context, has just exited and the
\* options it had bound were not the ones bound at its entry
ScopeExitRestoresBindingWitness ==
    \E t \in Threads :
        /\ lastScope[t].op = "exit"
        /\ lastScope[t].ctor = 3
        /\ lastScope[t].entry.g_env # nullptr
        /\ lastScope[t].entry.g_opts # nullptr
        /\ lastScope[t].pre.g_opts # lastScope[t].entry.g_opts
        /\ Len(scopes[t]) = 1

\* C35: the sizes recorded by every live scope are at most the current
\* lengths of the enabled and of the disabled list, so that the resize of a
\* scope exit only truncates: the lists after an exit are initial segments
\* of the lists before it, with no default-constructed name appended.
ExitNeverGrows ==
    \A t \in Threads :
        /\ \A i \in DOMAIN scopes[t] :
              /\ scopes[t][i].obj.m_enable_sz <= Len(enabled[t])
              /\ scopes[t][i].obj.m_disable_sz <= Len(disabled[t])
        /\ lastScope[t].op = "exit" =>
              /\ Len(enabled[t]) <= Len(lastScope[t].pre.en)
              /\ enabled[t] = SubSeq(lastScope[t].pre.en, 1, Len(enabled[t]))
              /\ Len(disabled[t]) <= Len(lastScope[t].pre.dis)
              /\ disabled[t] = SubSeq(lastScope[t].pre.dis, 1, Len(disabled[t]))

\* an inner scope that had lengthened both lists has exited, and the
\* lists were cut back to the lengths of the scope around it, which differ
ExitNeverGrowsWitness ==
    \E t \in Threads :
        /\ lastScope[t].op = "exit"
        /\ Len(scopes[t]) = 1
        /\ 0 < Len(enabled[t])
        /\ Len(enabled[t]) < Len(lastScope[t].pre.en)
        /\ Len(disabled[t]) < Len(lastScope[t].pre.dis)
        /\ Len(enabled[t]) # Len(disabled[t])

\* no name occurs twice in the list cs
NoRepeats(cs) == \A i, j \in DOMAIN cs : cs[i] = cs[j] => i = j

\* C40: no class name occurs twice in the enabled list or twice in the
\* disabled list, whichever scopes added the entries, and enabling or
\* disabling a class that is in the respective list leaves the list as it
\* is.
NoDuplicateClasses ==
    \A t \in Threads :
        /\ NoRepeats(enabled[t])
        /\ NoRepeats(disabled[t])
        /\ \A c \in Range(enabled[t]) : update_class(enabled[t], c) = enabled[t]
        /\ \A c \in Range(disabled[t]) : update_class(disabled[t], c) = disabled[t]

\* a scope was entered with other options that enable A while A, enabled
\* by the scope around it, was in the list but not its last entry: nothing
\* was appended
NoDuplicateClassesWitness ==
    \E t \in Threads :
        /\ lastScope[t].op = "enter"
        /\ Len(scopes[t]) = 2
        /\ g_opts[t] = 1
        /\ lastScope[t].pre.g_opts = 3
        /\ lastScope[t].pre.en = <<name1("A"), name1("C")>>
        /\ enabled[t] = <<name1("A"), name1("C")>>

(***************************************************************************)
(* Properties of the class queries (TraceSpec)                             *)
(***************************************************************************)
QueryNames ==
    {Anonymous, name1("A"), name2("A", "B"), name3("A", "B", "C"),
     name1("C"), name1("D"), name1("debug")}

\* n and the prefixes of n that are names of classes
RECURSIVE ClassChain(_)
ClassChain(n) ==
    IF is_anonymous(n) \/ is_anonymous(n.prefix) THEN {n}
    ELSE {n} \cup ClassChain(n.prefix)

\* some entry of cs is a prefix of n, or of an alias registered for n or
\* for one of n's prefixes
Matched(cs, n) ==
    \E i \in DOMAIN cs :
        \/ is_prefix_of(cs[i], n)
        \/ \E p \in ClassChain(n) \cap DOMAIN g_trace_aliases :
              \E a \in g_trace_aliases[p] : is_prefix_of(cs[i], a)

IsClassEnabled(t, n) == is_trace_class_enabled(n, Tls(t), g_trace_aliases)

\* C11: is_trace_class_enabled(n) is true exactly when the enabled list is
\* not empty, n is not matched in the disabled list and n is matched in the
\* enabled list.
ClassEnabledIff ==
    \A t \in Threads : \A n \in QueryNames :
        IsClassEnabled(t, n) <=>
            /\ enabled[t] # <<>>
            /\ ~Matched(disabled[t], n)
            /\ Matched(enabled[t], n)

\* a class enabled only through an alias registered for one of its proper
\* prefixes
ClassEnabledIffWitness ==
    \E t \in Threads :
        /\ IsClassEnabled(t, name3("A", "B", "C"))
        /\ ~is_trace_class_set_core(enabled[t], name3("A", "B", "C"))
        /\ name3("A", "B", "C") \notin DOMAIN g_trace_aliases

\* C12: a class matched in the disabled list is not enabled, whatever the
\* enabled list holds and whichever scope added the entries.
DisabledWins ==
    \A t \in Threads : \A n \in QueryNames :
        Matched(disabled[t], n) => ~IsClassEnabled(t, n)

\* a class matched in both lists, the entries added by two nested scopes
DisabledWinsWitness ==
    \E t \in Threads : \E n \in QueryNames :
        /\ Len(scopes[t]) = 2
        /\ Matched(disabled[t], n)
        /\ Matched(enabled[t], n)
        /\ Len(scopes[t][2].entry.dis) < Len(disabled[t])
           \/ Len(scopes[t][2].entry.en) < Len(enabled[t])

\* C13: when alias a is registered for class p and a is in the enabled list
\* with an empty disabled list, p and every descendant of p are enabled.
AliasEnables ==
    \A t \in Threads : \A p \in DOMAIN g_trace_aliases :
        \A a \in g_trace_aliases[p] : \A n \in QueryNames :
            (/\ a \in Range(enabled[t])
             /\ disabled[t] = <<>>
             /\ is_prefix_of(p, n))
            => IsClassEnabled(t, n)

\* alias D registered for A.B and D the only enabled class
AliasEnablesWitness ==
    \E t \in Threads :
        /\ name2("A", "B") \in DOMAIN g_trace_aliases
        /\ name1("D") \in g_trace_aliases[name2("A", "B")]
        /\ enabled[t] = <<name1("D")>>
        /\ disabled[t] = <<>>
        /\ IsClassEnabled(t, name2("A", "B"))
        /\ IsClassEnabled(t, name3("A", "B", "C"))

\* some entry of cs is a prefix of an alias registered for an alias (or for
\* a prefix of an alias) of n or of one of n's prefixes
MatchedInTwoSteps(cs, n) ==
    \E p \in ClassChain(n) \cap DOMAIN g_trace_aliases :
        \E a \in g_trace_aliases[p] :
            \E q \in ClassChain(a) \cap DOMAIN g_trace_aliases :
                \E b \in g_trace_aliases[q] :
                    \E i \in DOMAIN cs : is_prefix_of(cs[i], b)

\* C37: is_trace_class_set(list, n) is true exactly when an entry of the
\* list is a prefix of n or of an alias registered for n or for one of n's
\* prefixes; a class that an entry reaches only through an alias of an
\* alias is not matched.
AliasSingleStep ==
    \A t \in Threads : \A n \in QueryNames :
        \A cs \in {enabled[t], disabled[t]} :
            /\ is_trace_class_set(cs, n, g_trace_aliases) <=> Matched(cs, n)
            /\ (MatchedInTwoSteps(cs, n) /\ ~Matched(cs, n))
                  => ~is_trace_class_set(cs, n, g_trace_aliases)

\* D is an alias of A.B and C an alias of D; C is disabled and A.B is
\* enabled: D is matched in the disabled list, A.B is not and stays enabled
AliasSingleStepWitness ==
    \E t \in Threads :
        /\ name2("A", "B") \in DOMAIN g_trace_aliases
        /\ name1("D") \in DOMAIN g_trace_aliases
        /\ name1("A") \notin DOMAIN g_trace_aliases
        /\ g_trace_aliases[name2("A", "B")] = {name1("D")}
        /\ g_trace_aliases[name1("D")] = {name1("C")}
        /\ disabled[t] = <<name1("C")>>
        /\ enabled[t] = <<name2("A", "B")>>
        /\ MatchedInTwoSteps(disabled[t], name2("A", "B"))
        /\ is_trace_class_set(disabled[t], name1("D"), g_trace_aliases)
        /\ ~is_trace_class_set(disabled[t], name2("A", "B"), g_trace_aliases)
        /\ IsClassEnabled(t, name2("A", "B"))

(***************************************************************************)
(* Properties of the scope entry (TraceSpec)                               *)
(***************************************************************************)
\* a key under "trace"
IsTraceKey(k) == is_prefix_of(name1("trace"), k)

\* the class C a key "trace" + C names
ClassOfKey(k) == CHOOSE c \in QueryNames : name_join(name1("trace"), c) = k

\* the classes of the entries of o with value v, in iteration order
ClassesOf(o, v) ==
    LET IsV(e) == IsTraceKey(e.key) /\ e.val = v
        s      == SelectSeq(o, IsV)
    IN  [i \in 1..Len(s) |-> ClassOfKey(s[i].key)]

\* new is old followed by the classes of cs that old does not have, each
\* once and in the order of cs
AppendedOnce(old, new, cs) ==
    /\ Len(old) <= Len(new)
    /\ SubSeq(new, 1, Len(old)) = old
    /\ Range(new) = Range(old) \cup Range(cs)
    /\ \A i \in (Len(old) + 1)..Len(new) :
          /\ new[i] \notin Range(SubSeq(new, 1, i - 1))
          /\ \A j \in (i + 1)..Len(new) :
                \E a, b \in DOMAIN cs : a < b /\ cs[a] = new[i] /\ cs[b] = new[j]

\* C29 (as the code has it): a scope entered with an options object that is
\* not the one already bound appends the class of every "trace" key with
\* value true to the enabled list and of every "trace" key with value false
\* to the disabled list, unless the list has the class already; the entries
\* the lists had are kept and other keys add nothing; entered with the
\* options object already bound, or without options, it leaves both lists
\* as they are.
ScopeEntryInterprets ==
    \A t \in Threads :
        lastScope[t].op = "enter" =>
            LET pre == lastScope[t].pre
            IN  IF /\ lastScope[t].ctor \in {1, 3}
                   /\ g_opts[t] # nullptr
                   /\ g_opts[t] # pre.g_opts
                THEN /\ AppendedOnce(pre.en, enabled[t],
                                     ClassesOf(OptTable[g_opts[t]], TRUE))
                     /\ AppendedOnce(pre.dis, disabled[t],
                                     ClassesOf(OptTable[g_opts[t]], FALSE))
                ELSE /\ enabled[t] = pre.en
                     /\ disabled[t] = pre.dis

\* with enabled list [A] and the options {trace.A} bound, a scope entered
\* with the options {trace.A, trace.C} has appended C only
ScopeEntryInterpretsWitness ==
    \E t \in Threads :
        /\ lastScope[t].op = "enter"
        /\ lastScope[t].ctor = 1
        /\ lastScope[t].pre.g_opts = 1
        /\ g_opts[t] = 3
        /\ lastScope[t].pre.en = <<name1("A")>>
        /\ enabled[t] = <<name1("A"), name1("C")>>

\* C29 as stated: a scope entered with an options object appends the class
\* of every "trace" key with value true to the enabled list and of every
\* "trace" key with value false to the disabled list.
ScopeEntryAppendsAll ==
    \A t \in Threads :
        (/\ lastScope[t].op = "enter"
         /\ lastScope[t].ctor \in {1, 3}
         /\ g_opts[t] # nullptr)
        => /\ enabled[t] =
                lastScope[t].pre.en \o ClassesOf(OptTable[g_opts[t]], TRUE)
           /\ disabled[t] =
                lastScope[t].pre.dis \o ClassesOf(OptTable[g_opts[t]], FALSE)

(***************************************************************************)
(* Properties of the run as a whole (Spec)                                 *)
(***************************************************************************)
\* C14: every context of a run, the one an operation has just observed and
\* the one of every pending withIncRecDepth / withRef body, has
\* currRecDepth <= maxRecDepth.
DepthBounded ==
    /\ \A i \in DOMAIN stack :
          stack[i].ctx.currRecDepth <= stack[i].ctx.maxRecDepth
    /\ last.ctx.currRecDepth <= last.ctx.maxRecDepth

\* an operation observes the context of a withRef body nested in two
\* withIncRecDepth bodies, at the maximum depth
DepthBoundedWitness ==
    /\ phase = "Running"
    /\ Top.kind = "withRef"
    /\ NestCount(stack) = 2
    /\ Top.ctx.currRecDepth = 2
    /\ Top.ctx.maxRecDepth = 2
    /\ last.op = "getEnv"
    /\ last.ctx = Top.ctx

Terminal == phase \in {"Completed", "Failed"}

\* everything of the run an operation can change or leave a mark in
RunState ==
    <<phase, options, initialEnv, stack, cell, pending, freshIds,
      last.op, last.ctx, last.pre, last.tag, last.calls, last.nest,
      last.applied, stdout, stderr, result>>

\* C15: a run goes Start -> Running -> Completed or Failed; the outcome is
\* delivered exactly when the run becomes Completed (a value) or Failed (an
\* error), and from then on no operation of the run executes and nothing of
\* the run changes.
RunTerminal ==
    /\ [](Terminal <=> result # <<>>)
    /\ [](Terminal => (phase = "Completed" <=> result[1].tag = "ok"))
    /\ [][/\ Terminal => UNCHANGED RunState
          /\ phase' # phase =>
                <<phase, phase'>> \in {<<"Start", "Running">>,
                                       <<"Running", "Completed">>,
                                       <<"Running", "Failed">>}]_RunState

\* a run that failed after it had changed the environment
RunTerminalWitness ==
    /\ phase = "Failed"
    /\ result # <<>>
    /\ pending # <<>>
    /\ CurEnv # initialEnv

\* C33: nothing is rolled back on a failure: the name generator of the
\* cell has advanced by one for every identifier drawn so far, a throwError,
\* a checkRecDepth or a withIncRecDepth that fails leaves the cell as it
\* was, and while the exception is pending (returned through the enclosing
\* withIncRecDepth bodies, inspected by a caller, or delivered by run) the
\* cell stays as it is.
NoRollback ==
    /\ [](phase # "Start" =>
            io_ref_get(cell).ngen.idx = NameGenerator_Inhabited.idx + Len(freshIds))
    /\ [][/\ pending # <<>> => cell' = cell
          /\ (/\ pending = <<>>
              /\ pending' # <<>>
              /\ last'.op \in {"throwError", "checkRecDepth", "withIncRecDepth"})
             => cell' = cell]_RunState

\* an exception thrown inside a withIncRecDepth body, after a declaration
\* was added and an identifier drawn, has been returned to the caller of
\* withIncRecDepth
NoRollbackWitness ==
    /\ phase = "Running"
    /\ pending # <<>>
    /\ pending[1].tag = "error"
    /\ last.op = "return"
    /\ last.tag = "error"
    /\ Len(stack) = 1
    /\ "d1" \in CurEnv.decls
    /\ Len(freshIds) > 0
    /\ io_ref_get(cell).ngen.idx > NameGenerator_Inhabited.idx

\* the chunks a complete flush of the messages ts writes
Rendered(ts) ==
    [i \in 1..(2 * Len(ts)) |->
        IF i % 2 = 1 THEN Format_pretty(MessageData_formatAux(ts[(i + 1) \div 2]))
        ELSE NewLine]

\* the text an exception is rendered to
RenderedException(e) ==
    IF e.tag = "kernel"
    THEN Format_pretty(MessageData_formatAux(KernelException_toMessageData(e.ex, e.opts)))
    ELSE Format_pretty(MessageData_formatAux(e.msg))

ReturnedEnv(r) == IF r.tag = "ok" THEN <<r.val[1]>> ELSE <<>>

DepthRestored ==
    /\ \A i \in DOMAIN stack :
          stack[i].ctx.currRecDepth = NestCount(SubSeq(stack, 1, i))
    /\ (last.op = "return" /\ last.arg = "withIncRecDepth") =>
          Top.ctx.currRecDepth = last.ctx.currRecDepth - 1
    /\ (phase = "Running" /\ NestCount(stack) < getMaxRecDepth(options)) =>
          checkRecDepth(Top.ctx, cell).tag = "ok"

\* with maxRecDepth 2, a body entered at depth 1 has returned with a
\* failure after drawing two identifiers, and its caller is at depth 1
DepthRestoredWitness ==
    /\ getMaxRecDepth(options) = 2
    /\ last.op = "return"
    /\ last.arg = "withIncRecDepth"
    /\ last.tag = "error"
    /\ last.ctx.currRecDepth = 2
    /\ Top.ctx.currRecDepth = 1
    /\ Len(freshIds) = 2

\* C24: when checkRecDepth is called with currRecDepth = maxRecDepth, on its
\* own or by withIncRecDepth, it returns Exception.error with the context's
\* ref and the max-recursion-depth message as an error result to its
\* caller, the run does not end by itself, and the state (environment, name
\* generator, trace log) is the one before the call.
CheckRecDepthFailure ==
    (/\ last.op \in {"checkRecDepth", "withIncRecDepth"}
     /\ last.ctx.currRecDepth = last.ctx.maxRecDepth)
    => /\ last.tag = "error"
       /\ last.val = [tag |-> "error", ref |-> last.ctx.ref,
                      msg |-> maxRecDepthErrorMessage]
       /\ pending = <<last.val>>
       /\ result = <<>> => phase = "Running"
       /\ cell # <<>>
       /\ cell[1].env = last.pre[1].env
       /\ cell[1].ngen = last.pre[1].ngen
       /\ cell[1].traceState = last.pre[1].traceState

\* checkRecDepth has just failed inside a withRef body, in a state whose
\* environment, generator and trace log are not the initial ones
CheckRecDepthFailureWitness ==
    /\ last.op = "checkRecDepth"
    /\ last.tag = "error"
    /\ last.ctx.ref = "pos1"
    /\ CurEnv # initialEnv
    /\ cell[1].ngen.idx > 1
    /\ cell[1].traceState # <<>>

\* the calls to the kernel and to the compiler backend among calls
IsCollaborator(x) == x.who # "ref"

Collaborators(calls) == SelectSeq(calls, IsCollaborator)

\* C25: when the kernel accepts the declaration, addAndCompile calls the
\* kernel on the environment from before the call and then the compiler
\* backend on the environment the kernel returned.
AddAndCompileCompilesNewEnv ==
    (last.op = "addAndCompile" /\ KernelAnswer.tag = "ok")
    => LET cs == Collaborators(last.calls)
       IN  /\ Len(cs) = 2
           /\ cs[1].who = "kernel"
           /\ cs[1].env = PreEnv
           /\ cs[1].decl = last.arg
           /\ cs[2].who = "compiler"
           /\ cs[2].decl = last.arg
           /\ cs[2].env = KernelAnswer.val
           /\ cs[2].env # PreEnv

\* addAndCompile of d1 has succeeded: the backend was given an environment
\* with d1 in it
AddAndCompileCompilesNewEnvWitness ==
    /\ last.op = "addAndCompile"
    /\ last.arg = "d1"
    /\ last.tag = "ok"
    /\ "d1" \notin PreEnv.decls
    /\ Len(Collaborators(last.calls)) = 2
    /\ "d1" \in Collaborators(last.calls)[2].env.decls

IsRefCall(x) == x.who = "ref"

\* the accesses to the reference cell among calls, in order
RefOps(calls) ==
    LET s == SelectSeq(calls, IsRefCall)
    IN  [i \in 1..Len(s) |-> s[i].op]

\* C26: once the run has started the cell holds a full state whenever no
\* operation is executing, every operation found it full, every take of an
\* operation is followed at once by a set of the same operation, and the
\* state set back by setEnv, modifyEnv, mkFreshId and the modification of
\* the trace state is the state taken with the one field rebuilt, so that
\* each mutation acts on the state the previous one left.
TakeThenSet ==
    /\ phase # "Start" =>
          /\ Len(cell) = 1
          /\ DOMAIN cell[1] = {"env", "ngen", "traceState"}
    /\ last.op # "none" => Len(last.pre) = 1
    /\ LET ops == RefOps(last.calls)
       IN  \A i \in DOMAIN ops :
              /\ ops[i] = "take" => (i < Len(ops) /\ ops[i + 1] = "set")
              /\ ops[i] = "set" => (i > 1 /\ ops[i - 1] = "take")
    /\ last.op \in {"setEnv", "modifyEnv", "mkFreshId", "modifyTraceState"} =>
          /\ Len(cell) = 1
          /\ "take" \in Range(RefOps(last.calls))
    /\ (last.op = "setEnv" /\ Len(cell) = 1) =>
          cell[1] = [last.pre[1] EXCEPT !.env = last.arg]
    /\ (last.op = "modifyEnv" /\ Len(cell) = 1) =>
          cell[1] = [last.pre[1] EXCEPT !.env = applyEnvFn(last.arg, @)]
    /\ (last.op = "mkFreshId" /\ Len(cell) = 1) =>
          cell[1] = [last.pre[1] EXCEPT !.ngen.idx = @ + 1]
    /\ (last.op = "modifyTraceState" /\ Len(cell) = 1) =>
          cell[1] = [last.pre[1] EXCEPT !.traceState = Append(@, last.arg)]

\* modifyEnv has changed the environment of a state whose generator and
\* trace log had been changed by earlier operations
TakeThenSetWitness ==
    /\ last.op = "modifyEnv"
    /\ last.pre[1].ngen.idx > 1
    /\ last.pre[1].traceState # <<>>
    /\ cell # last.pre
    /\ cell[1].ngen = last.pre[1].ngen
    /\ cell[1].traceState = last.pre[1].traceState

\* C34: setEnv and modifyEnv leave the name generator and the trace log as
\* they were, mkFreshId leaves the environment and the trace log, the
\* modification of the trace state leaves the environment and the name
\* generator, and getEnv, getOptions and getTraceState leave the whole
\* state.
StateFrames ==
    /\ last.op \in {"setEnv", "modifyEnv"} =>
          /\ io_ref_get(cell).ngen = io_ref_get(last.pre).ngen
          /\ io_ref_get(cell).traceState = io_ref_get(last.pre).traceState
    /\ last.op = "mkFreshId" =>
          /\ io_ref_get(cell).env = io_ref_get(last.pre).env
          /\ io_ref_get(cell).traceState = io_ref_get(last.pre).traceState
    /\ last.op = "modifyTraceState" =>
          /\ io_ref_get(cell).env = io_ref_get(last.pre).env
          /\ io_ref_get(cell).ngen = io_ref_get(last.pre).ngen
    /\ last.op \in {"getEnv", "getOptions", "getTraceState"} =>
          cell = last.pre

\* setEnv has installed another environment in a state whose generator
\* had advanced and whose trace log had a message
StateFramesWitness ==
    /\ last.op = "setEnv"
    /\ io_ref_get(cell).env # io_ref_get(last.pre).env
    /\ io_ref_get(last.pre).ngen.idx > NameGenerator_Inhabited.idx
    /\ io_ref_get(last.pre).traceState # TraceState_Inhabited

\* C38: getConstInfo returns the constant info the environment of the cell
\* has for the name; when it has none, getConstInfo fails with the
\* elaboration exception whose message is "unknown constant" with the name
\* and whose reference is the current reference of the context; in both
\* cases the cell is as it was.
GetConstInfoContract ==
    last.op = "getConstInfo" =>
        /\ cell = last.pre
        /\ IF last.arg \in PreEnv.decls
           THEN /\ last.tag = "ok"
                /\ last.val = lean_environment_find(PreEnv, last.arg)[1]
                /\ pending = <<>>
           ELSE /\ last.tag = "error"
                /\ last.val = Exception_error(last.ctx.ref,
                                              unknownConstantMessage(last.arg))
                /\ pending = <<last.val>>

\* getConstInfo of a name the environment does not have has failed inside
\* a withRef body, in a run that had added another declaration
GetConstInfoContractWitness ==
    /\ last.op = "getConstInfo"
    /\ last.tag = "error"
    /\ last.arg = "d2"
    /\ last.ctx.ref # Syntax_missing
    /\ "d1" \in PreEnv.decls

\* C27 (as the code has it): mkFreshId reads the cell, derives the name
\* from the generator of the state read, then takes the state, increments
\* its generator and sets it back; nothing executes between the read and
\* the take, so the name is the one of the generator that is incremented.
MkFreshIdGetThenTake ==
    last.op = "mkFreshId" =>
        /\ RefOps(last.calls) = <<"get", "take", "set">>
        /\ last.val.prefix = last.pre[1].ngen.namePrefix
        /\ last.val.num = last.pre[1].ngen.idx
        /\ cell[1].ngen.idx = last.val.num + 1

\* the second mkFreshId of a run, after other operations changed the state
MkFreshIdGetThenTakeWitness ==
    /\ last.op = "mkFreshId"
    /\ last.val.num = 2
    /\ cell[1].ngen.idx = 3
    /\ CurEnv # initialEnv
    /\ cell[1].traceState # <<>>

\* C27 as stated: the only accesses of mkFreshId to the cell are the take
\* and the set, and the name comes from the state taken.
MkFreshIdSingleTake ==
    last.op = "mkFreshId" =>
        /\ RefOps(last.calls) = <<"take", "set">>
        /\ last.val.num = last.pre[1].ngen.idx
        /\ cell[1].ngen.idx = last.val.num + 1

(***************************************************************************)
(* Properties of two interleaved runs (RunsSpec)                           *)
(***************************************************************************)
\* C18: whatever the interleaving, the cell of each run holds the state the
\* run has when it executes alone (no operation of the other run changed
\* its environment, name generator or trace log), and every result it got,
\* the final one included, is the one it gets alone.
RunsIndependent ==
    \A r \in RunIds :
        runs[r].phase # "Start" =>
            /\ heap[runs[r].ref] = runs[r].solo
            /\ runs[r].agree

\* both runs are under way, each has drawn a fresh id from its own cell,
\* and the cells differ
RunsIndependentWitness ==
    /\ \A r \in RunIds : runs[r].phase = "Running" /\ runs[r].n > 0
    /\ runs["r1"].ref # runs["r2"].ref
    /\ heap[runs["r1"].ref] # heap[runs["r2"].ref]
    /\ \A r \in RunIds : heap[runs[r].ref][1].ngen.idx > 1

(***************************************************************************)
(* Properties of the functions on names (NameSpec)                         *)
(***************************************************************************)
\* C19: if a and b are independent, then so are a and b extended by one
\* component each, and so are a + c and b + d for all names c and d.
IndependentPreserved ==
    (nameOut.op \in {"mk", "join"} /\ nameOut.ind) => nameOut.ind2

\* independent names of two components joined with names of two components
IndependentPreservedWitness ==
    /\ nameOut.op = "join"
    /\ nameOut.ind
    /\ nameOut.ind2
    /\ ~is_atomic(nameIn.a)
    /\ ~is_atomic(nameIn.b)
    /\ ~is_atomic(nameIn.c)
    /\ ~is_anonymous(nameIn.d)

\* C20: a == b implies hash(a) = hash(b); quick_cmp(a, b) = 0 exactly when
\* cmp(a, b) = 0, exactly when a == b.
HashOrderAgree ==
    nameOut.op = "compare" =>
        /\ nameOut.eq => nameOut.h1 = nameOut.h2
        /\ (nameOut.qc = 0) <=> (nameOut.c = 0)
        /\ (nameOut.c = 0) <=> nameOut.eq

\* two different non-anonymous names with the same hash
HashOrderAgreeWitness ==
    /\ nameOut.op = "compare"
    /\ ~is_anonymous(nameIn.a)
    /\ ~is_anonymous(nameIn.b)
    /\ nameOut.h1 = nameOut.h2
    /\ ~nameOut.eq
    /\ nameOut.qc # 0

\* the components of a name as atomic names, the root first
RECURSIVE Comps(_)
Comps(n) ==
    IF is_anonymous(n) THEN <<>>
    ELSE Append(Comps(n.prefix), [n EXCEPT !.prefix = Anonymous])

\* C21: n.replace_prefix(old, new) is new followed by the components of n
\* after old when the components of old are the first components of n, and
\* n itself otherwise.
ReplacePrefixContract ==
    nameOut.op = "replace" =>
        LET n   == Comps(nameIn.a)
            old == Comps(nameIn.b)
            new == Comps(nameIn.c)
        IN  IF Len(old) <= Len(n) /\ SubSeq(n, 1, Len(old)) = old
            THEN Comps(nameOut.res) = new \o SubSeq(n, Len(old) + 1, Len(n))
            ELSE nameOut.res = nameIn.a

\* a proper, non-anonymous prefix replaced by a different name
ReplacePrefixContractWitness ==
    /\ nameOut.op = "replace"
    /\ ~is_anonymous(nameIn.b)
    /\ nameIn.b # nameIn.a
    /\ is_prefix_of(nameIn.b, nameIn.a)
    /\ ~is_atomic(nameIn.c)
    /\ nameOut.res # nameIn.a
    /\ Comps(nameOut.res) = Comps(nameIn.c) \o <<[nameIn.a EXCEPT !.prefix = Anonymous]>>

(***************************************************************************)
(* Properties of the conversions of exceptions (ExnSpec)                   *)
(***************************************************************************)
\* C22: toMessageData of Exception.io is the message made of the text of
\* the error's description, of Exception.kernel it is the message of the
\* kernel's formatter for the kernel exception and the options it carries,
\* and of Exception.error it is the payload itself.
ToMessageDataCases ==
    exnOut.op = "toMessageData" =>
        LET md == exnOut.md[1]
        IN  CASE exnIn.tag = "io" ->
                    /\ md.tag = "ofFormat"
                    /\ md.fmt.tag = "text"
                    /\ md.fmt.s = lean_io_error_to_string(exnIn.err)
              [] exnIn.tag = "kernel" ->
                    md = KernelException_toMessageData(exnIn.ex, exnIn.opts)
              [] exnIn.tag = "error" ->
                    md = exnIn.msg

\* a kernel exception carrying options other than the empty ones
ToMessageDataCasesWitness ==
    /\ exnOut.op = "toMessageData"
    /\ exnIn.tag = "kernel"
    /\ exnIn.opts # mkOptions(0)
    /\ exnOut.md[1] = <<"kernel", exnIn.ex, exnIn.opts>>

(***************************************************************************)
(* Properties of the flush of the trace log (FlushSpec)                    *)
(***************************************************************************)
\* C28: forM over the array prints the messages pushed to it, each one
\* once (its text, then a newline) and in the order they were pushed, the
\* messages of the tree before those of the tail; if a write fails, exactly
\* the chunks before it were printed.
FlushInOrder ==
    (flushOut # <<>> /\ flushOut[1].op = "forM") =>
        LET r   == flushOut[1]
            all == Rendered(pushed)
        IN  IF r.failAt = 0
            THEN r.tag = "ok" /\ r.out = all
            ELSE r.tag = "error" /\ r.out = SubSeq(all, 1, r.failAt - 1)

\* seven messages, the first two different, printed from a tree with
\* internal nodes under the root and a message in the tail
FlushInOrderWitness ==
    /\ flushOut # <<>>
    /\ flushOut[1].op = "forM"
    /\ flushOut[1].failAt = 0
    /\ Len(pushed) = 7
    /\ pushed[1] # pushed[2]
    /\ parr.depth = 2
    /\ Len(parr.root.cs) = 2
    /\ parr.root.cs[1].tag = "node"
    /\ parr.root.cs[1].cs[2].tag = "leaf"
    /\ Len(parr.tail) = 1
    /\ Len(flushOut[1].out) = 14

\* C36: when a write of the flush fails, run / runCore returns that write's
\* I/O error, whether the action had completed or had failed, and exactly
\* the chunks before the failed write are on standard output: the messages
\* after it are not printed.
FlushFailureReported ==
    (/\ flushOut # <<>>
     /\ flushOut[1].op \in {"run", "runCore"}
     /\ flushOut[1].failAt # 0)
    => LET r == flushOut[1]
       IN  /\ r.tag = "error"
           /\ r.val = IoWriteError
           /\ r.out = SubSeq(Rendered(pushed), 1, r.failAt - 1)
           /\ Len(r.out) < Len(Rendered(pushed))

\* the action completed, the second of three messages could not be written
FlushFailureReportedWitness ==
    /\ flushOut # <<>>
    /\ flushOut[1].op = "runCore"
    /\ ~flushOut[1].failed
    /\ Len(pushed) = 3
    /\ flushOut[1].failAt = 3
    /\ flushOut[1].tag = "error"
    /\ Len(flushOut[1].out) = 2

ThreadLocalScopes ==
    [][\A u \in AllThreads :
          scopes'[u] # scopes[u] =>
              \A t \in AllThreads \ {u} :
                  /\ enabled'[t] = enabled[t]
                  /\ disabled'[t] = disabled[t]
                  /\ g_env'[t] = g_env[t]
                  /\ g_opts'[t] = g_opts[t]
                  /\ g_ctx'[t] = g_ctx[t]
                  /\ is_trace_enabled(Tls(t))' = is_trace_enabled(Tls(t))
                  /\ \A n \in QueryNames :
                        IsClassEnabled(t, n)' = IsClassEnabled(t, n)]_traceVars

\* t1 is inside a scope that enabled A, t2 has entered and left a scope
\* since: t2 has nothing enabled and nothing bound
ThreadLocalScopesWitness ==
    /\ Len(scopes["t1"]) = 1
    /\ enabled["t1"] = <<name1("A")>>
    /\ g_opts["t1"] = 1
    /\ IsClassEnabled("t1", name1("A"))
    /\ lastScope["t2"].op = "exit"
    /\ scopes["t2"] = <<>>
    /\ enabled["t2"] = <<>>
    /\ g_opts["t2"] = nullptr
    /\ g_env["t2"] = nullptr
    /\ ~IsClassEnabled("t2", name1("A"))

(***************************************************************************)
(* Properties of set_option (SetOptSpec)                                   *)
(***************************************************************************)
\* the value options m has for key k: <<v>>, or <<>> when it has none
KVMap_find(m, k) ==
    LET s == SelectSeq(m, LAMBDA e : e.key = k)
    IN  IF s = <<>> THEN <<>> ELSE <<s[1].val>>

KVMap_keys(m) == {m[i].key : i \in DOMAIN m}

\* C39: set_option returns options exactly when the option is declared and
\* the value has the kind of the declared default value; the options
\* returned are the options of the context with that one key set to the
\* value and every other key as it was; otherwise it fails, for a kind
\* mismatch with "type mismatch at set_option", and returns no options.
SetOptionContract ==
    setOptOut.op = "setOption" =>
        LET n        == setOptOut.name
            v        == setOptOut.val
            declared == n \in DOMAIN OptionDecls
            sameKind == declared /\ OptionDecls[n].defValue.kind = v.kind
        IN  /\ setOptOut.tag = "ok" <=> (declared /\ sameKind)
            /\ setOptOut.tag = "ok" =>
                  LET new == setOptOut.res[1]
                  IN  /\ KVMap_find(new, n) = <<v>>
                      /\ KVMap_keys(new) = KVMap_keys(setOptIn) \cup {n}
                      /\ Len(new) = Cardinality(KVMap_keys(new))
                      /\ \A k \in KVMap_keys(setOptIn) \ {n} :
                            KVMap_find(new, k) = KVMap_find(setOptIn, k)
            /\ setOptOut.tag # "ok" =>
                  /\ setOptOut.tag = "error"
                  /\ setOptOut.res[1].tag = "error"
                  /\ setOptOut.res[1].ref = setOptOut.ref
                  /\ (declared => setOptOut.res[1].msg = typeMismatchMessage)

\* a Bool value given for maxRecDepth, declared with a Nat default, in
\* options that have a value for it: the call has failed
SetOptionContractWitness ==
    /\ setOptOut.op = "setOption"
    /\ setOptOut.name = name1("maxRecDepth")
    /\ setOptOut.val.kind = "Bool"
    /\ setOptOut.tag = "error"
    /\ KVMap_find(setOptIn, name1("maxRecDepth")) # <<>>
    /\ Len(setOptIn) = 2

====
